---- MODULE Spec2Model ----
(***************************************************************************)
(* A model of geppy's genome representation (geppy/core/symbol.py,         *)
(* geppy/core/entity.py), its random genome generator                      *)
(* (geppy/tools/generator.py, geppy/tools/_util.py) and its genetic        *)
(* operators (geppy/tools/mutation.py, geppy/tools/crossover.py).          *)
(*                                                                         *)
(* Python lists are sequences; a Python index i is the position i + 1.     *)
(* Every call of the random module is an input of the action that makes    *)
(* it, drawn with \E from the set of values the call can return; a call    *)
(* random.randint(a, b) with a > b raises ValueError.                      *)
(***************************************************************************)
EXTENDS Integers, Sequences, FiniteSets, TLC

VARIABLES
    ind1,       \* the chromosome the operators act on (list of genes)
    ind2,       \* the second parent of the crossover operators
    pc,         \* "idle", or "ris" inside the while loop of ris_transpose; "new" and
                \* "built" around a constructor; "gene", "kexpression" (inside its
                \* while loop), "kexpr" (it returned), "raised" when decoding
    n_trial,    \* the loop counter of ris_transpose
    last,       \* the last operator call: its name, its random draws, whether it raised
    n_ops,      \* number of operator calls made so far; of readings of
                \* kexpression when a gene is decoded
    shape,      \* the arguments the chromosomes were constructed with; linker is
                \* the __name__ of the linker, "None" without one
    frame,      \* the local variables of the running kexpression property
    out,        \* what the decoding of ind1[0] has returned so far
    registry,   \* a PrimitiveSet that is being filled: _functions, _terminals, _globals
    run         \* a call of gep_simple / gep_rnc: its arguments and local variables

vars == <<ind1, ind2, pc, n_trial, last, n_ops, shape, frame, out, registry, run>>

----------------------------------------------------------------------------
(* Bounds of the model *)

MaxHead == 2        \* head lengths 1..MaxHead in sequences of operator calls
MaxHeadOne == 3     \* head lengths 1..MaxHeadOne for a single operator call
MaxHeadGen == 2     \* head lengths 1..MaxHeadGen of the genes the generator builds
MaxHeadDecode == 2  \* head lengths 1..MaxHeadDecode of the genes that are decoded
MaxGenes == 2       \* chromosomes of 1..MaxGenes genes
MaxGenesOne == 3    \* the same, where one operator call is made
MaxOps == 2         \* operator calls per behaviour
MaxPoints == 1      \* point events of one call of a per-position mutation
MaxSeed == 2        \* seeds 0..MaxSeed of the generator's random draws
MaxDecodes == 2     \* readings of the kexpression property of one gene
PopSize == 3        \* individuals of the population of a run
MaxElites == 1      \* n_elites of 0..MaxElites
MaxGenerations == 2 \* n_generations of a run
MaxInserts == 3     \* insertions into a PrimitiveSet after its construction
rnc_array_length == 2   \* the rnc_array_length argument of GeneDc

EphVals == {0, 1}       \* values the ephemeral generator returns
RncVals == {0, 1}       \* values rnc_gen returns

----------------------------------------------------------------------------
(* Python helpers *)

Min(a, b) == IF a < b THEN a ELSE b
Max(a, b) == IF a > b THEN a ELSE b

\* s[i] for a Python index i >= 0
At(s, i) == s[i + 1]

\* the bound of a slice: a negative bound counts from the end, then it is clamped
SliceBound(n, i) == IF i < 0 THEN Max(n + i, 0) ELSE Min(i, n)

\* s[i:j]
Slice(s, i, j) == SubSeq(s, SliceBound(Len(s), i) + 1, SliceBound(Len(s), j))

\* s[i:]
SliceFrom(s, i) == Slice(s, i, Len(s))

\* a reversed that keeps the order
reversed_same_order(s) == s

\* list(reversed(s))
reversed(s) == [k \in 1..Len(s) |-> s[Len(s) + 1 - k]]

\* s[i:j] = r   (slice assignment)
SliceAssign(s, i, j, r) ==
    LET a == SliceBound(Len(s), i)
        b == Max(a, SliceBound(Len(s), j))
    IN SubSeq(s, 1, a) \o r \o SubSeq(s, b + 1, Len(s))

\* the values random.randint(a, b) can return; empty when it raises ValueError
randint(a, b) == a..b

\* random.choice(seq) for the draw k
choice(seq, k) == seq[(k % Len(seq)) + 1]

----------------------------------------------------------------------------
(* geppy/core/symbol.py: primitives.  A primitive is a record; id is the   *)
(* identity of a mutable EphemeralTerminal object (0 for the immutable     *)
(* primitives, which are shared), val its value.  An entry of a Dc domain  *)
(* is a plain int, the record PyInt(i).                                      *)

Function(name, arity) ==
    [cls |-> "Function", name |-> name, arity |-> arity, id |-> 0, val |-> 0]

Terminal(name, value) ==
    [cls |-> "Terminal", name |-> name, arity |-> 0, id |-> 0, val |-> value]

SymbolTerminal(name) ==
    [cls |-> "SymbolTerminal", name |-> name, arity |-> 0, id |-> 0, val |-> 0]

EphemeralTerminal(name, id, value) ==
    [cls |-> "EphemeralTerminal", name |-> name, arity |-> 0, id |-> id, val |-> value]

RNCTerminal(name) ==
    [cls |-> "RNCTerminal", name |-> name, arity |-> 0, id |-> 0, val |-> 0]

PyInt(i) == [cls |-> "int", name |-> "", arity |-> 0, id |-> 0, val |-> i]

isFunction(p) == p.cls = "Function"
isEphemeralTerminal(p) == p.cls = "EphemeralTerminal"
isRNCTerminal(p) == p.cls = "RNCTerminal"
isInt(p) == p.cls = "int"
isTerminal(p) == p.cls \in {"Terminal", "SymbolTerminal", "EphemeralTerminal", "RNCTerminal"}

\* EphemeralTerminal.update_value on the object e, the generator returning v
update_value(e, v) == [e EXCEPT !.val = v]

\* The primitive set the chromosomes are built over: two functions, an input
\* terminal, an ephemeral terminal and the RNC terminal.
pset ==
    [functions |-> <<Function("AND", 2), Function("NOT", 1)>>,
     terminals |-> <<SymbolTerminal("a"), EphemeralTerminal("E", 0, 0), RNCTerminal("?")>>]

RECURSIVE MaxArityOf(_)
MaxArityOf(fs) ==
    IF Len(fs) = 0 THEN 0 ELSE Max(fs[1].arity, MaxArityOf(Tail(fs)))

\* PrimitiveSet.max_arity
max_arity(ps) == MaxArityOf(ps.functions)

----------------------------------------------------------------------------
(* geppy/tools/_util.py and geppy/tools/generator.py.  A draw is a record  *)
(* [coin, k, v]: coin is random.random() < 0.5, k the draw of              *)
(* random.choice, v the value the ephemeral generator returns.             *)

\* _choose_a_terminal: an ephemeral is copied to a new object (identity
\* fresh) and given a new value
_choose_a_terminal(terminals, k, fresh, v) ==
    LET terminal == choice(terminals, k)
    IN IF isEphemeralTerminal(terminal)
       THEN update_value([terminal EXCEPT !.id = fresh], v)
       ELSE terminal

\* the tail length generate_genome computes
TailLengthRule(h, n_max) == h * (n_max - 1) + 1

\* a generate_genome whose second loop chooses among the functions
GenomeSymbol_function_in_tail(ps, h, i, d, fresh) ==
    IF i < h
    THEN IF d.coin THEN choice(ps.functions, d.k)
                   ELSE _choose_a_terminal(ps.terminals, d.k, fresh, d.v)
    ELSE choice(ps.functions, d.k)

\* generate_genome: the symbol at Python index i of a gene under construction
GenomeSymbol(ps, h, i, d, fresh) ==
    IF i < h
    THEN IF d.coin THEN choice(ps.functions, d.k)
                   ELSE _choose_a_terminal(ps.terminals, d.k, fresh, d.v)
    ELSE _choose_a_terminal(ps.terminals, d.k, fresh, d.v)

\* generate_genome(pset, head_length) for the draws tape[1..h+t]; the new
\* ephemeral objects get the identities base+1, base+2, ...
generate_genome(ps, head_length, tape, base) ==
    LET h == head_length
        n_max == max_arity(ps)
        t == TailLengthRule(h, n_max)
    IN [i \in 1..(h + t) |-> GenomeSymbol(ps, h, i - 1, tape[i], base + i)]

\* generate_dc(rnc_array_length, dc_length) for the draws ks
generate_dc(n, dc_length, ks) ==
    [i \in 1..dc_length |-> PyInt(choice([j \in 1..n |-> j - 1], ks[i]))]

\* a Python list object: its identity and its elements.  A gene holds its
\* RNC array as the elements rnc_array and the identity rnc_id of the list
\* object _rnc_array, 0 when it has none.
PyList(id, vals) == [id |-> id, vals |-> vals]

\* Gene.__init__
Gene(ps, head_length, tape, base) ==
    [cls |-> "Gene", genome |-> generate_genome(ps, head_length, tape, base),
     head_length |-> head_length, rnc_array |-> <<>>, rnc_id |-> 0]

\* GeneDc.__init__: the gene, then the Dc domain, then the RNC array, a new
\* list of identity base + 2
GeneDc(ps, head_length, rnc_vals, n, tape, ks, base) ==
    LET t == head_length * (max_arity(ps) - 1) + 1
        d == t
    IN [cls |-> "GeneDc",
        genome |-> generate_genome(ps, head_length, tape, base) \o generate_dc(n, d, ks),
        head_length |-> head_length,
        rnc_array |-> [i \in 1..n |-> rnc_vals[i]],
        rnc_id |-> base + 2]

----------------------------------------------------------------------------
(* geppy/core/entity.py: the domains of a gene *)

\* Gene.tail_length and GeneDc.tail_length
tail_length(g) ==
    IF g.cls = "GeneDc" THEN (Len(g.genome) - g.head_length) \div 2
                        ELSE Len(g.genome) - g.head_length

\* GeneDc.dc_length
dc_length(g) == tail_length(g)

head(g) == Slice(g.genome, 0, g.head_length)
tail(g) == Slice(g.genome, g.head_length, g.head_length + tail_length(g))
dc(g) == Slice(g.genome, g.head_length + tail_length(g),
               g.head_length + tail_length(g) + dc_length(g))

\* gene[i] for every i
ReplaceGene(individual, gi, g) == [individual EXCEPT ![gi + 1] = g]

\* the identities of the ephemeral objects a list of genes refers to
EphIds(individual) ==
    UNION {{individual[g].genome[i].id : i \in 1..Len(individual[g].genome)} :
              g \in 1..Len(individual)} \ {0}

\* the identity of a newly created object: one no live object has
FreshId(used) == CHOOSE k \in 1..(Cardinality(used) + 1) : k \notin used

----------------------------------------------------------------------------
(* Construction: Chromosome(gene_gen, n_genes) with gene_gen building a    *)
(* Gene or a GeneDc over pset.  The draws of the generator are those of a  *)
(* seed.                                                                   *)

\* the draw the generator makes for Python index i - 1 under a seed
SeedDraw(seed, i) ==
    [coin |-> (seed % 3 = 0) \/ (seed % 3 = 1 /\ i % 2 = 1),
     k |-> seed + i,
     v |-> (seed + i) % 2]

SeedTape(seed, n) == [i \in 1..n |-> SeedDraw(seed, i)]

\* gene_gen(): toolbox.gene_gen of the examples, Gene or GeneDc over pset
gene_gen(cls, h, seed, base) ==
    LET n == h + TailLengthRule(h, max_arity(pset))
    IN IF cls = "GeneDc"
       THEN GeneDc(pset, h, [i \in 1..rnc_array_length |-> (seed + i) % 2],
                   rnc_array_length, SeedTape(seed, n),
                   [i \in 1..n |-> seed + i], base)
       ELSE Gene(pset, h, SeedTape(seed, n), base)

\* Chromosome.__init__: n_genes calls of gene_gen
Chromosome(cls, h, n_genes, seed, base) ==
    [j \in 1..n_genes |-> gene_gen(cls, h, seed + j - 1, base + 16 * (j - 1))]

\* the record of an operator call
Call(op, raised, i1, i2, a, b, p) ==
    [op |-> op, raised |-> raised, i1 |-> i1, i2 |-> i2, a |-> a, b |-> b, p |-> p]

\* an operator returns the individual / raises and leaves it as it is
Ret(individual, op, i1, i2, a, b, p) ==
    [ind |-> individual, call |-> Call(op, FALSE, i1, i2, a, b, p)]
Raise(individual, op, i1, i2, a, b) ==
    [ind |-> individual, call |-> Call(op, TRUE, i1, i2, a, b, 0)]

NoCall == Call("none", FALSE, 0, 0, 0, 0, 0)

\* no kexpression is running, nothing is decoded
NoFrame == [expr |-> <<>>, i |-> 0, j |-> 0, n_rnc |-> 0, raised |-> ""]
NoTree == [names |-> <<>>, children |-> <<>>, raised |-> ""]
NoOut == [kexpression |-> <<>>, tree |-> NoTree, str |-> "", raised |-> "",
          has |-> {}]

\* no algorithm is running
NoRun == [pc |-> "none"]

\* no PrimitiveSet is being filled
NoRegistry == [functions |-> <<>>, terminals |-> <<>>, globals |-> <<>>]

\* two chromosomes of one shape are constructed over pset
Constructed(maxh, maxn) ==
    /\ \E cls \in {"Gene", "GeneDc"}, h \in 1..maxh, n \in 1..maxn,
          seed \in 0..MaxSeed :
          /\ ind1 = Chromosome(cls, h, n, seed, 0)
          /\ ind2 = Chromosome(cls, h, n, seed + 1, 16 * n)
          /\ shape = [cls |-> cls, head_length |-> h, n_genes |-> n,
                      rnc_array_length |-> rnc_array_length, linker |-> "None"]
    /\ pc = "idle"
    /\ n_trial = 0
    /\ last = NoCall
    /\ n_ops = 0
    /\ frame = NoFrame
    /\ out = NoOut
    /\ registry = NoRegistry
    /\ run = NoRun

Init == Constructed(MaxHead, MaxGenes)

----------------------------------------------------------------------------
(* geppy/tools/mutation.py *)

\* a _choose_subsequence whose start can be one too far to the right
_choose_subsequence_one_further(seq, min_length, max_length) ==
    LET ml == IF max_length <= 0 THEN Len(seq) ELSE max_length
    IN UNION {{<<start, start + length>> : start \in randint(0, Len(seq) - length + 1)} :
                 length \in randint(min_length, ml)}

\* _choose_subsequence: the (start, end) pairs it can return, end excluded
_choose_subsequence(seq, min_length, max_length) ==
    LET ml == IF max_length <= 0 THEN Len(seq) ELSE max_length
    IN UNION {{<<start, start + length>> : start \in randint(0, Len(seq) - length)} :
                 length \in randint(min_length, ml)}

\* _choose_subsequence_indices: the (a, b) pairs it can return, both included
_choose_subsequence_indices(i, j, min_length, max_length) ==
    LET ml == IF max_length <= 0 THEN j - i + 1 ELSE max_length
    IN UNION {{<<start, start + length - 1>> : start \in randint(i, j - length + 1)} :
                 length \in randint(min_length, ml)}

\* one of the randint calls of _choose_subsequence_indices can raise
_choose_subsequence_indices_raises(i, j, min_length, max_length) ==
    LET ml == IF max_length <= 0 THEN j - i + 1 ELSE max_length
    IN \/ randint(min_length, ml) = {}
       \/ \E length \in randint(min_length, ml) : randint(i, j - length + 1) = {}

\* gene[start: end] = reversed(gene[start: end])
ReverseSlice(genome, start, end) ==
    SliceAssign(genome, start, end, reversed(Slice(genome, start, end)))

\* invert: the results of its body for the individual
invert_results(individual) ==
    IF individual[1].head_length < 2
    THEN {Ret(individual, "invert", 0, 0, 0, 0, 0)}
    ELSE UNION {
        LET gene == individual[gi + 1]
        IN {Ret(ReplaceGene(individual, gi,
                    [gene EXCEPT !.genome = ReverseSlice(gene.genome, se[1], se[2])]),
                "invert", gi, gi, se[1], se[2], 0) :
               se \in _choose_subsequence(head(gene), 2, gene.head_length)}
        : gi \in 0..(Len(individual) - 1)}

\* invert_dc: the slice it reverses for the pair _choose_subsequence_indices returned
invert_dc_gene(g, inv_start, inv_end) ==
    [g EXCEPT !.genome = ReverseSlice(g.genome, inv_start, inv_end)]

invert_dc_results(individual) ==
    UNION {
        LET g == individual[gi + 1]
            start == g.head_length + tail_length(g)
            end == start + dc_length(g) - 1
        IN IF dc_length(g) < 2
           THEN {Ret(individual, "invert_dc", gi, gi, 0, 0, 0)}
           ELSE {Ret(ReplaceGene(individual, gi, invert_dc_gene(g, ab[1], ab[2])),
                     "invert_dc", gi, gi, ab[1], ab[2], 0) :
                    ab \in _choose_subsequence_indices(start, end, 2, -1)}
                \cup (IF _choose_subsequence_indices_raises(start, end, 2, -1)
                      THEN {Raise(individual, "invert_dc", gi, gi, 0, 0)} ELSE {})
        : gi \in 0..(Len(individual) - 1)}

\* _choose_donor_donee: the index pairs random.choices(range(len), k=2) can return
_choose_donor_donee(individual) ==
    (0..(Len(individual) - 1)) \X (0..(Len(individual) - 1))

\* is_transpose inserting the sequence one position to the left
is_transpose_splice_left(donee, is_, insertion_pos) ==
    [donee EXCEPT !.genome =
        Slice(donee.genome, 0, insertion_pos - 1) \o is_ \o
        Slice(donee.genome, insertion_pos - 1, donee.head_length - Len(is_)) \o
        SliceFrom(donee.genome, donee.head_length)]

\* is_transpose with the shifted head content not truncated
is_transpose_splice_untruncated(donee, is_, insertion_pos) ==
    [donee EXCEPT !.genome =
        Slice(donee.genome, 0, insertion_pos) \o is_ \o
        SliceFrom(donee.genome, insertion_pos)]

\* is_transpose: the donee after the splice of the insertion sequence is_
is_transpose_splice(donee, is_, insertion_pos) ==
    [donee EXCEPT !.genome =
        Slice(donee.genome, 0, insertion_pos) \o is_ \o
        Slice(donee.genome, insertion_pos,
              insertion_pos + donee.head_length - insertion_pos - Len(is_)) \o
        SliceFrom(donee.genome, donee.head_length)]

is_transpose_results(individual) ==
    UNION {
        LET donor == individual[dd[1] + 1]
            donee == individual[dd[2] + 1]
            j == donor.head_length + tail_length(donor) - 1
            ml == donee.head_length - 1
        IN UNION {
              LET is_ == Slice(donor.genome, ab[1], ab[2] + 1)
                  ps == randint(1, donee.head_length - Len(is_))
              IN IF ps = {}
                 THEN {Raise(individual, "is_transpose", dd[1], dd[2], ab[1], ab[2])}
                 ELSE {Ret(ReplaceGene(individual, dd[2],
                               is_transpose_splice(donee, is_, insertion_pos)),
                           "is_transpose", dd[1], dd[2], ab[1], ab[2], insertion_pos) :
                          insertion_pos \in ps}
              : ab \in _choose_subsequence_indices(0, j, 1, ml)}
           \cup (IF _choose_subsequence_indices_raises(0, j, 1, ml)
                 THEN {Raise(individual, "is_transpose", dd[1], dd[2], 0, 0)} ELSE {})
        : dd \in _choose_donor_donee(individual)}

\* the loop of ris_transpose making one pass more
ris_loop_condition_one_more(n, individual) == n <= 2 * Len(individual) + 1

\* ris_transpose: the condition of its while loop
ris_loop_condition(n, individual) == n <= 2 * Len(individual)

\* ris_transpose: the donee after the insertion of ris at its root
ris_transpose_splice(donee, ris, length) ==
    [donee EXCEPT !.genome =
        ris \o Slice(donee.genome, 0, donee.head_length - length) \o
        SliceFrom(donee.genome, donee.head_length)]

\* the positions of the functions in the donor's head
function_indices(donor) ==
    {i \in 0..(Len(head(donor)) - 1) : isFunction(At(head(donor), i))}

\* ris_transpose: the results of one pass of its loop body that draws the
\* donor and donee, draws being the number of draws made before it.  A pass
\* that finds no function in the donor's head leaves a = -1 and continues.
ris_transpose_trial(individual, draws) ==
    UNION {
        LET donor == individual[dd[1] + 1]
            donee == individual[dd[2] + 1]
        IN IF function_indices(donor) = {}
           THEN {Ret(individual, "ris_transpose", dd[1], dd[2], -1, 0, draws + 1)}
           ELSE UNION {
              LET lengths == randint(2, Min(donee.head_length,
                                 donor.head_length + tail_length(donor) - ris_start))
              IN IF lengths = {}
                 THEN {[ind |-> individual,
                        call |-> Call("ris_transpose", TRUE, dd[1], dd[2], ris_start, 0,
                                      draws + 1)]}
                 ELSE {Ret(ReplaceGene(individual, dd[2],
                               ris_transpose_splice(donee,
                                   Slice(donor.genome, ris_start, ris_start + length),
                                   length)),
                           "ris_transpose", dd[1], dd[2], ris_start, length, draws + 1) :
                          length \in lengths}
              : ris_start \in function_indices(donor)}
        : dd \in _choose_donor_donee(individual)}

\* a transposition that copies the chosen gene to the front and keeps it
gene_transpose_results_copy(individual) ==
    IF Len(individual) <= 1
    THEN {Ret(individual, "gene_transpose", 0, 0, 0, 0, 0)}
    ELSE {Ret([individual EXCEPT ![1] = individual[source + 1]],
              "gene_transpose", source, 0, 0, 0, 0) :
             source \in randint(1, Len(individual) - 1)}

\* gene_transpose
gene_transpose_results(individual) ==
    IF Len(individual) <= 1
    THEN {Ret(individual, "gene_transpose", 0, 0, 0, 0, 0)}
    ELSE {Ret([individual EXCEPT ![1] = individual[source + 1],
                                 ![source + 1] = individual[1]],
              "gene_transpose", source, 0, 0, 0, 0) :
             source \in randint(1, Len(individual) - 1)}

\* an insertion that keeps all the old content after the transposon
transpose_dc_splice_untruncated(donee, donor, t_start, t_end, insertion_pos) ==
    [donee EXCEPT !.genome =
        Slice(donee.genome, 0, insertion_pos) \o
        Slice(donor.genome, t_start, t_end + 1) \o
        SliceFrom(donee.genome, insertion_pos)]

\* transpose_dc: the donee after the insertion of the transposon
transpose_dc_splice(donee, donor, t_start, t_end, insertion_pos) ==
    [donee EXCEPT !.genome =
        Slice(donee.genome, 0, insertion_pos) \o
        Slice(donor.genome, t_start, t_end + 1) \o
        Slice(donee.genome, insertion_pos,
              insertion_pos + Len(donee.genome) - (insertion_pos + t_end - t_start + 1))]

transpose_dc_results(individual) ==
    UNION {
        LET donor == individual[dd[1] + 1]
            donee == individual[dd[2] + 1]
            dc_start == donor.head_length + tail_length(donor)
            dc_end == donor.head_length + tail_length(donor) + dc_length(donor) - 1
        IN UNION {
              LET ps == randint(dc_start, dc_end - (tt[2] - tt[1]))
              IN IF ps = {}
                 THEN {Raise(individual, "transpose_dc", dd[1], dd[2], tt[1], tt[2])}
                 ELSE {Ret(ReplaceGene(individual, dd[2],
                               transpose_dc_splice(donee, donor, tt[1], tt[2], insertion_pos)),
                           "transpose_dc", dd[1], dd[2], tt[1], tt[2], insertion_pos) :
                          insertion_pos \in ps}
              : tt \in _choose_subsequence_indices(dc_start, dc_end, 1, -1)}
           \cup (IF _choose_subsequence_indices_raises(dc_start, dc_end, 1, -1)
                 THEN {Raise(individual, "transpose_dc", dd[1], dd[2], 0, 0)} ELSE {})
        : dd \in _choose_donor_donee(individual)}

----------------------------------------------------------------------------
(* The point mutations.  Each loops over positions and draws             *)
(* random.random() < ind_pb at each; a position where the draw succeeds  *)
(* is a point event.  One call makes at most MaxPoints point events.     *)

\* the positions <<gene index, index in the gene>> of the index ranges lo[g]..hi[g] of the genes
Points(individual, lo, hi) ==
    UNION {{<<g, i>> : i \in lo[g + 1]..hi[g + 1]} : g \in 0..(Len(individual) - 1)}

\* the loops reach the position q after the position p
Later(q, p) == q[1] > p[1] \/ (q[1] = p[1] /\ q[2] > p[2])

SetAt(individual, q, x) == [individual EXCEPT ![q[1] + 1].genome[q[2] + 1] = x]

\* mutate_uniform: the draws of one point event
\* (the value the ephemeral generator returns is drawn only when the chosen
\* terminal is an ephemeral)
TailDraws(ps) ==
    UNION {{[coin |-> FALSE, k |-> k, v |-> v] :
               v \in IF isEphemeralTerminal(choice(ps.terminals, k)) THEN EphVals ELSE {0}} :
              k \in 0..(Len(ps.terminals) - 1)}
HeadDraws(ps) ==
    {[coin |-> TRUE, k |-> k, v |-> 0] : k \in 0..(Len(ps.functions) - 1)} \cup TailDraws(ps)

\* mutate_uniform: the symbol written at index i of gene for the draws d
mutate_uniform_symbol(gene, ps, i, d, fresh) ==
    IF i < gene.head_length
    THEN IF d.coin THEN choice(ps.functions, d.k)
                   ELSE _choose_a_terminal(ps.terminals, d.k, fresh, d.v)
    ELSE _choose_a_terminal(ps.terminals, d.k, fresh, d.v)

FirstIndex(individual) == [g \in 1..Len(individual) |-> 0]
LastSymbolIndex(individual) == [g \in 1..Len(individual) |-> individual[g].head_length + tail_length(individual[g]) - 1]

\* mutate_uniform: the individuals its loops can leave when they have passed
\* the position after, with at most budget more point events
RECURSIVE mutate_uniform_from(_, _, _, _, _)
mutate_uniform_from(individual, ps, after, budget, used) ==
    {individual} \cup
    IF budget = 0 THEN {}
    ELSE UNION {
        LET gene == individual[q[1] + 1]
            fresh == FreshId(used \cup EphIds(individual))
        IN UNION {mutate_uniform_from(
                      SetAt(individual, q, mutate_uniform_symbol(gene, ps, q[2], d, fresh)),
                      ps, q, budget - 1, used) :
                  d \in IF q[2] < gene.head_length THEN HeadDraws(ps) ELSE TailDraws(ps)}
        : q \in {q \in Points(individual, FirstIndex(individual), LastSymbolIndex(individual)) : Later(q, after)}}

mutate_uniform_results(individual, ps, used) ==
    {Ret(r, "mutate_uniform", 0, 0, 0, 0, 0) :
        r \in mutate_uniform_from(individual, ps, <<-1, 0>>, MaxPoints, used)}

FirstDcIndex(individual) == [g \in 1..Len(individual) |-> individual[g].head_length + tail_length(individual[g])]
LastDcIndex(individual) == [g \in 1..Len(individual) |-> individual[g].head_length + tail_length(individual[g]) + dc_length(individual[g]) - 1]

\* a draw that may return len(g.rnc_array) too
mutate_uniform_dc_values_inclusive(g) == randint(0, Len(g.rnc_array))

\* mutate_uniform_dc: the value written into the Dc domain of g
mutate_uniform_dc_values(g) == randint(0, Len(g.rnc_array) - 1)

RECURSIVE mutate_uniform_dc_from(_, _, _)
mutate_uniform_dc_from(individual, after, budget) ==
    {individual} \cup
    IF budget = 0 THEN {}
    ELSE UNION {
        UNION {mutate_uniform_dc_from(SetAt(individual, q, PyInt(x)), q, budget - 1) :
                  x \in mutate_uniform_dc_values(individual[q[1] + 1])}
        : q \in {q \in Points(individual, FirstDcIndex(individual), LastDcIndex(individual)) : Later(q, after)}}

mutate_uniform_dc_results(individual) ==
    {Ret(r, "mutate_uniform_dc", 0, 0, 0, 0, 0) :
        r \in mutate_uniform_dc_from(individual, <<-1, 0>>, MaxPoints)}
    \cup (IF \E g \in 1..Len(individual) :
                dc_length(individual[g]) > 0 /\ mutate_uniform_dc_values(individual[g]) = {}
          THEN {Raise(individual, "mutate_uniform_dc", 0, 0, 0, 0)} ELSE {})

\* mutate_rnc_array_dc: g.rnc_array[i] = rnc_gen()
FirstRncIndex(individual) == [g \in 1..Len(individual) |-> 0]
LastRncIndex(individual) == [g \in 1..Len(individual) |-> Len(individual[g].rnc_array) - 1]

\* a write that goes to the first entry of the Dc domain instead
WriteList_into_dc(individual, id, i, x) ==
    [g \in 1..Len(individual) |->
        IF individual[g].rnc_id = id /\ id # 0
        THEN [individual[g] EXCEPT
                !.genome[individual[g].head_length + tail_length(individual[g]) + 1] =
                    PyInt(x)]
        ELSE individual[g]]

\* the list object of identity id gets x at index i: every gene that holds
\* the object as its RNC array sees it
WriteList(individual, id, i, x) ==
    [g \in 1..Len(individual) |->
        IF individual[g].rnc_id = id /\ id # 0
        THEN [individual[g] EXCEPT !.rnc_array[i + 1] = x]
        ELSE individual[g]]

\* the pairs <<individual, other>> the loops can leave
RECURSIVE mutate_rnc_array_dc_from(_, _, _, _)
mutate_rnc_array_dc_from(individual, other, after, budget) ==
    {<<individual, other>>} \cup
    IF budget = 0 THEN {}
    ELSE UNION {
        LET id == individual[q[1] + 1].rnc_id
        IN UNION {mutate_rnc_array_dc_from(
                      WriteList(individual, id, q[2], x), WriteList(other, id, q[2], x),
                      q, budget - 1) :
                  x \in RncVals}
        : q \in {q \in Points(individual, FirstRncIndex(individual), LastRncIndex(individual)) : Later(q, after)}}

\* mutate_uniform_ephemeral: the list ephemerals, as positions of the individual
LastIndex(individual) == [g \in 1..Len(individual) |-> Len(individual[g].genome) - 1]
ephemerals(individual) ==
    {q \in Points(individual, FirstIndex(individual), LastIndex(individual)) :
        isEphemeralTerminal(At(individual[q[1] + 1].genome, q[2]))}

\* an update that puts a constant terminal of the new value in the place of
\* the ephemeral
UpdateObject_by_constant(individual, id, v) ==
    [g \in 1..Len(individual) |->
        [individual[g] EXCEPT !.genome =
            [i \in 1..Len(individual[g].genome) |->
                IF individual[g].genome[i].id = id /\ id # 0
                THEN Terminal(ToString(v), v)
                ELSE individual[g].genome[i]]]]

\* e.update_value() on the object of identity id: every reference to the
\* object sees the new value
UpdateObject(individual, id, v) ==
    [g \in 1..Len(individual) |->
        [individual[g] EXCEPT !.genome =
            [i \in 1..Len(individual[g].genome) |->
                IF individual[g].genome[i].id = id /\ id # 0
                THEN update_value(individual[g].genome[i], v)
                ELSE individual[g].genome[i]]]]

\* the pairs <<individual, other>> the loop over ephemerals can leave
RECURSIVE mutate_uniform_ephemeral_from(_, _, _, _)
mutate_uniform_ephemeral_from(individual, other, after, budget) ==
    {<<individual, other>>} \cup
    IF budget = 0 THEN {}
    ELSE UNION {
        LET id == At(individual[q[1] + 1].genome, q[2]).id
        IN UNION {mutate_uniform_ephemeral_from(
                      UpdateObject(individual, id, v), UpdateObject(other, id, v),
                      q, budget - 1) :
                  v \in EphVals}
        : q \in {q \in ephemerals(individual) : Later(q, after)}}

----------------------------------------------------------------------------
(* geppy/tools/crossover.py.  a[i:j], b[i:j] = b[i:j], a[i:j] reads both  *)
(* slices and then assigns them.                                          *)

SwapGenome(x, y, i, j) ==
    <<[x EXCEPT !.genome = SliceAssign(x.genome, i, j, Slice(y.genome, i, j))],
      [y EXCEPT !.genome = SliceAssign(y.genome, i, j, Slice(x.genome, i, j))]>>

\* the two chromosomes after the exchange of the genes [i:j]
SwapGenes(x, y, i, j) ==
    <<SliceAssign(x, i, j, Slice(y, i, j)), SliceAssign(y, i, j, Slice(x, i, j))>>

\* the two chromosomes after the exchange of positions [i:j] of gene g
SwapInGene(xy, g, i, j) ==
    LET sw == SwapGenome(xy[1][g + 1], xy[2][g + 1], i, j)
    IN <<ReplaceGene(xy[1], g, sw[1]), ReplaceGene(xy[2], g, sw[2])>>

\* a one-point crossover that leaves the position which_point where it is
crossover_one_point_children_before_point(x, y, which_gene, which_point) ==
    SwapInGene(SwapGenes(x, y, 0, which_gene), which_gene, 0, which_point)

crossover_one_point_children(x, y, which_gene, which_point) ==
    SwapInGene(SwapGenes(x, y, 0, which_gene), which_gene, 0, which_point + 1)

crossover_two_point_children(x, y, g1, g2, p1, p2) ==
    IF g1 = g2
    THEN SwapInGene(<<x, y>>, g1, p1, p2 + 1)
    ELSE LET between == SwapGenes(x, y, g1 + 1, g2)
             first == SwapInGene(between, g1, p1, Len(between[1][g1 + 1].genome)
                                                 + Len(between[2][g1 + 1].genome))
         IN SwapInGene(first, g2, 0, p2 + 1)

\* a gene crossover that copies the gene of y and leaves y as it is
crossover_gene_children_copy(x, y, pos1, pos2) ==
    <<ReplaceGene(x, pos1, y[pos2 + 1]), y>>

crossover_gene_children(x, y, pos1, pos2) ==
    <<ReplaceGene(x, pos1, y[pos2 + 1]), ReplaceGene(y, pos2, x[pos1 + 1])>>

----------------------------------------------------------------------------
(* The operators as actions: each is one call on ind1 (and ind2) *)

Idle == pc = "idle" /\ n_ops < MaxOps

\* a call of an operator of one individual returns or raises
Returns(r) ==
    /\ ind1' = r.ind
    /\ last' = r.call
    /\ n_ops' = n_ops + 1
    /\ UNCHANGED <<ind2, pc, n_trial, shape, frame, out, registry, run>>

\* a call of a crossover operator returns the two children
Children(xy, op, i1, i2, a, b) ==
    /\ ind1' = xy[1]
    /\ ind2' = xy[2]
    /\ last' = Call(op, FALSE, i1, i2, a, b, 0)
    /\ n_ops' = n_ops + 1
    /\ UNCHANGED <<pc, n_trial, shape, frame, out, registry, run>>

IsDc == ind1[1].cls = "GeneDc"

mutate_uniform ==
    /\ Idle
    /\ \E r \in mutate_uniform_results(ind1, pset, EphIds(ind1) \cup EphIds(ind2)) :
          Returns(r)

mutate_uniform_dc ==
    /\ Idle /\ IsDc
    /\ \E r \in mutate_uniform_dc_results(ind1) : Returns(r)

invert ==
    /\ Idle
    /\ \E r \in invert_results(ind1) : Returns(r)

invert_dc ==
    /\ Idle /\ IsDc
    /\ \E r \in invert_dc_results(ind1) : Returns(r)

is_transpose ==
    /\ Idle
    /\ \E r \in is_transpose_results(ind1) : Returns(r)

\* ris_transpose is entered: n_trial = 0
ris_transpose ==
    /\ Idle
    /\ pc' = "ris"
    /\ n_trial' = 0
    /\ last' = Call("ris_transpose", FALSE, 0, 0, -1, 0, 0)
    /\ n_ops' = n_ops + 1
    /\ UNCHANGED <<ind1, ind2, shape, frame, out, registry, run>>

\* one pass of the loop body of ris_transpose
ris_transpose_loop ==
    /\ pc = "ris"
    /\ ris_loop_condition(n_trial, ind1)
    /\ \E r \in ris_transpose_trial(ind1, last.p) :
          /\ ind1' = r.ind
          /\ last' = r.call
          /\ IF ~r.call.raised /\ r.call.a = -1
             THEN pc' = "ris" /\ n_trial' = n_trial + 1
             ELSE pc' = "idle" /\ n_trial' = n_trial
    /\ UNCHANGED <<ind2, n_ops, shape, frame, out, registry, run>>

\* the loop of ris_transpose ends: the individual is returned as it is
ris_transpose_exit ==
    /\ pc = "ris"
    /\ ~ris_loop_condition(n_trial, ind1)
    /\ pc' = "idle"
    /\ last' = [last EXCEPT !.b = -1]
    /\ UNCHANGED <<ind1, ind2, n_trial, n_ops, shape, frame, out, registry, run>>

gene_transpose ==
    /\ Idle
    /\ \E r \in gene_transpose_results(ind1) : Returns(r)

transpose_dc ==
    /\ Idle /\ IsDc
    /\ \E r \in transpose_dc_results(ind1) : Returns(r)

mutate_rnc_array_dc ==
    /\ Idle /\ IsDc
    /\ \E r \in mutate_rnc_array_dc_from(ind1, ind2, <<-1, 0>>, MaxPoints) :
          /\ ind1' = r[1]
          /\ ind2' = r[2]
    /\ last' = Call("mutate_rnc_array_dc", FALSE, 0, 0, 0, 0, 0)
    /\ n_ops' = n_ops + 1
    /\ UNCHANGED <<pc, n_trial, shape, frame, out, registry, run>>

\* the largest of a set of identities, 0 for none
MaxId(ids) == CHOOSE m \in ids \cup {0} : \A x \in ids \cup {0} : x <= m

\* copy.deepcopy(individual): new gene objects with new RNC array objects;
\* a primitive is kept (Primitive.__deepcopy__ returns self) but an
\* ephemeral terminal is copied at each place (EphemeralTerminal.__deepcopy__
\* returns copy.copy(self))
deepcopy(individual) ==
    LET e == MaxId(EphIds(individual))
        a == MaxId({individual[g].rnc_id : g \in 1..Len(individual)})
    IN [g \in 1..Len(individual) |->
           [individual[g] EXCEPT
              !.genome = [i \in 1..Len(individual[g].genome) |->
                             IF isEphemeralTerminal(individual[g].genome[i])
                             THEN [individual[g].genome[i] EXCEPT
                                     !.id = e + 16 * (g - 1) + i]
                             ELSE individual[g].genome[i]],
              !.rnc_id = IF individual[g].rnc_id = 0 THEN 0 ELSE a + g]]

\* toolbox.clone(ind): the clone takes the place of the second chromosome
clone ==
    /\ Idle
    /\ ind2' = deepcopy(ind1)
    /\ last' = Call("clone", FALSE, 0, 0, 0, 0, 0)
    /\ n_ops' = n_ops + 1
    /\ UNCHANGED <<ind1, pc, n_trial, shape, frame, out, registry, run>>

mutate_uniform_ephemeral ==
    /\ Idle
    /\ \E r \in mutate_uniform_ephemeral_from(ind1, ind2, <<-1, 0>>, MaxPoints) :
          /\ ind1' = r[1]
          /\ ind2' = r[2]
    /\ last' = Call("mutate_uniform_ephemeral", FALSE, 0, 0, 0, 0, 0)
    /\ n_ops' = n_ops + 1
    /\ UNCHANGED <<pc, n_trial, shape, frame, out, registry, run>>

\* assert len(ind1) == len(ind2) fails: AssertionError, nothing is changed
AssertionError(op) ==
    /\ last' = Call(op, TRUE, 0, 0, 0, 0, 0)
    /\ n_ops' = n_ops + 1
    /\ UNCHANGED <<ind1, ind2, pc, n_trial, shape, frame, out, registry, run>>

crossover_one_point ==
    /\ Idle
    /\ IF Len(ind1) # Len(ind2)
       THEN AssertionError("crossover_one_point")
       ELSE \E which_gene \in randint(0, Len(ind1) - 1) :
            \E which_point \in randint(0, Len(ind1[which_gene + 1].genome) - 1) :
               Children(crossover_one_point_children(ind1, ind2, which_gene, which_point),
                        "crossover_one_point", which_gene, which_gene, which_point, 0)

crossover_two_point ==
    /\ Idle
    /\ IF Len(ind1) # Len(ind2)
       THEN AssertionError("crossover_two_point")
       ELSE \E c1, c2 \in 0..(Len(ind1) - 1) :
               LET g1 == IF c2 < c1 THEN c2 ELSE c1
                   g2 == IF c2 < c1 THEN c1 ELSE c2
               IN \E d1 \in randint(0, Len(ind1[g1 + 1].genome) - 1),
                     d2 \in randint(0, Len(ind1[g2 + 1].genome) - 1) :
                     LET p1 == IF g1 = g2 /\ d1 > d2 THEN d2 ELSE d1
                         p2 == IF g1 = g2 /\ d1 > d2 THEN d1 ELSE d2
                     IN Children(crossover_two_point_children(ind1, ind2, g1, g2, p1, p2),
                                 "crossover_two_point", g1, g2, p1, p2)

crossover_gene ==
    /\ Idle
    /\ IF Len(ind1) # Len(ind2)
       THEN AssertionError("crossover_gene")
       ELSE \E pos1, pos2 \in 0..(Len(ind1) - 1) :
               Children(crossover_gene_children(ind1, ind2, pos1, pos2),
                        "crossover_gene", pos1, pos2, 0, 0)

Next ==
    \/ mutate_uniform
    \/ mutate_uniform_dc
    \/ mutate_rnc_array_dc
    \/ mutate_uniform_ephemeral
    \/ invert
    \/ invert_dc
    \/ is_transpose
    \/ ris_transpose
    \/ ris_transpose_loop
    \/ ris_transpose_exit
    \/ gene_transpose
    \/ transpose_dc
    \/ crossover_one_point
    \/ crossover_two_point
    \/ crossover_gene
    \/ clone

Spec == Init /\ [][Next]_vars

\* one operator call on newly constructed chromosomes
InitOne == Constructed(MaxHeadOne, MaxGenesOne)
NextOne ==
    \/ n_ops = 0 /\ mutate_uniform
    \/ n_ops = 0 /\ mutate_uniform_dc
    \/ n_ops = 0 /\ mutate_rnc_array_dc
    \/ n_ops = 0 /\ mutate_uniform_ephemeral
    \/ n_ops = 0 /\ invert
    \/ n_ops = 0 /\ invert_dc
    \/ n_ops = 0 /\ is_transpose
    \/ n_ops = 0 /\ ris_transpose
    \/ ris_transpose_loop
    \/ ris_transpose_exit
    \/ n_ops = 0 /\ gene_transpose
    \/ n_ops = 0 /\ transpose_dc
    \/ n_ops = 0 /\ crossover_one_point
    \/ n_ops = 0 /\ crossover_two_point
    \/ n_ops = 0 /\ crossover_gene
SpecOne == InitOne /\ [][NextOne]_vars

\* the interpreter runs the loop of ris_transpose to its end
FairSpecOne ==
    SpecOne /\ WF_vars(ris_transpose_loop) /\ WF_vars(ris_transpose_exit)

----------------------------------------------------------------------------
(* One crossover call on two chromosomes of different shapes: different    *)
(* gene counts or different head lengths (and so different gene lengths).  *)

InitMismatch ==
    /\ \E cls \in {"Gene", "GeneDc"}, h1, h2 \in 1..MaxHead, n1, n2 \in 1..MaxGenes,
          seed \in 0..MaxSeed :
          /\ h1 # h2 \/ n1 # n2
          /\ ind1 = Chromosome(cls, h1, n1, seed, 0)
          /\ ind2 = Chromosome(cls, h2, n2, seed + 1, 16 * n1)
          /\ shape = [cls |-> cls, head_length |-> h1, n_genes |-> n1,
                      rnc_array_length |-> rnc_array_length, linker |-> "None"]
    /\ pc = "idle"
    /\ n_trial = 0
    /\ last = NoCall
    /\ n_ops = 0
    /\ frame = NoFrame
    /\ out = NoOut
    /\ registry = NoRegistry
    /\ run = NoRun

NextMismatch ==
    \/ n_ops = 0 /\ crossover_one_point
    \/ n_ops = 0 /\ crossover_two_point
    \/ n_ops = 0 /\ crossover_gene
SpecMismatch == InitMismatch /\ [][NextMismatch]_vars

----------------------------------------------------------------------------
(* Construction of one gene, with every outcome of the generator's draws:  *)
(* Gene(pset, h) and GeneDc(pset, h, rnc_gen, n).                          *)

\* nothing is constructed yet
NoShape == [cls |-> "none", head_length |-> 0, n_genes |-> 0, rnc_array_length |-> 0,
           linker |-> "None"]

InitGen ==
    /\ ind1 = <<>>
    /\ ind2 = <<>>
    /\ shape = NoShape
    /\ pc = "new"
    /\ n_trial = 0
    /\ last = NoCall
    /\ n_ops = 0
    /\ frame = NoFrame
    /\ out = NoOut
    /\ registry = NoRegistry
    /\ run = NoRun

\* the draws generate_genome can make for a gene of head length h: a coin
\* and a choice for each head position, a choice for each tail position
GenomeTapes(ps, h) ==
    LET t == h * (max_arity(ps) - 1) + 1
    IN {tape \in [1..(h + t) -> HeadDraws(ps)] :
           \A i \in (h + 1)..(h + t) : tape[i] \in TailDraws(ps)}

\* Gene(pset, h)
Gene_init ==
    /\ pc = "new"
    /\ \E h \in 1..MaxHeadGen : \E tape \in GenomeTapes(pset, h) :
          /\ ind1' = <<Gene(pset, h, tape, 0)>>
          /\ shape' = [cls |-> "Gene", head_length |-> h, n_genes |-> 1,
                       rnc_array_length |-> 0, linker |-> "None"]
    /\ pc' = "built"
    /\ UNCHANGED <<ind2, n_trial, last, n_ops, frame, out, registry, run>>

\* GeneDc(pset, h, rnc_gen, n)
GeneDc_init ==
    /\ pc = "new"
    /\ \E h \in 1..MaxHeadGen, n \in 1..rnc_array_length :
          \E tape \in GenomeTapes(pset, h),
             ks \in [1..(h * (max_arity(pset) - 1) + 1) -> 0..(n - 1)],
             rnc_vals \in [1..n -> RncVals] :
             /\ ind1' = <<GeneDc(pset, h, rnc_vals, n, tape, ks, 0)>>
             /\ shape' = [cls |-> "GeneDc", head_length |-> h, n_genes |-> 1,
                          rnc_array_length |-> n, linker |-> "None"]
    /\ pc' = "built"
    /\ UNCHANGED <<ind2, n_trial, last, n_ops, frame, out, registry, run>>

NextGen ==
    \/ Gene_init
    \/ GeneDc_init
SpecGen == InitGen /\ [][NextGen]_vars

----------------------------------------------------------------------------
(* geppy/core/entity.py: decoding a gene built by from_genome into its     *)
(* K-expression, its expression tree and its string.  The while loop of    *)
(* the kexpression property runs one pass per step.                        *)

\* a from_genome that keeps the list it is given as the RNC array
from_genome_keeping(cls, genome, head_length, rnc_array, fresh) ==
    [cls |-> cls, genome |-> genome, head_length |-> head_length,
     rnc_array |-> rnc_array.vals, rnc_id |-> rnc_array.id]

\* Gene.from_genome and GeneDc.from_genome(genome, head_length, rnc_array):
\* copy.deepcopy(rnc_array) is a new list, of identity fresh
from_genome(cls, genome, head_length, rnc_array, fresh) ==
    [cls |-> cls, genome |-> genome, head_length |-> head_length,
     rnc_array |-> rnc_array.vals,
     rnc_id |-> IF cls = "GeneDc" THEN fresh ELSE 0]

\* the symbols of the genes that are decoded
DecodeSymbols(cls) ==
    {Function("AND", 2), Function("NOT", 1), SymbolTerminal("a")} \cup
    (IF cls = "GeneDc" THEN {RNCTerminal("?")}
                       ELSE {SymbolTerminal("b"), SymbolTerminal("c")})

\* the genomes of head length h and tail length h*(max_arity-1)+1 over the
\* symbols, terminals only in the tail
HeadTailGenomes(cls, h) ==
    LET t == h * (max_arity(pset) - 1) + 1
    IN {g \in [1..(h + t) -> DecodeSymbols(cls)] :
           \A i \in (h + 1)..(h + t) : isTerminal(g[i])}

\* a Dc domain and an RNC array as generate_dc and rnc_gen can draw them
SeedDc(seed, n, d) == [i \in 1..d |-> PyInt((seed + i) % n)]
SeedRncArray(seed, n) == [i \in 1..n |-> 10 * i + seed]

InitDecode ==
    /\ \E h \in 1..MaxHeadDecode :
          \/ \E genome \in HeadTailGenomes("Gene", h) :
                /\ ind1 = <<from_genome("Gene", genome, h, PyList(0, <<>>), 0)>>
                /\ shape = [cls |-> "Gene", head_length |-> h, n_genes |-> 1,
                            rnc_array_length |-> 0, linker |-> "None"]
          \/ \E genome \in HeadTailGenomes("GeneDc", h), seed \in 0..MaxSeed :
                LET n == rnc_array_length
                    d == h * (max_arity(pset) - 1) + 1
                IN /\ ind1 = <<from_genome("GeneDc", genome \o SeedDc(seed, n, d), h,
                                           PyList(1, SeedRncArray(seed, n)), 2)>>
                   /\ shape = [cls |-> "GeneDc", head_length |-> h, n_genes |-> 1,
                               rnc_array_length |-> n, linker |-> "None"]
    /\ ind2 = <<>>
    /\ pc = "gene"
    /\ n_trial = 0
    /\ last = NoCall
    /\ n_ops = 0
    /\ frame = NoFrame
    /\ out = NoOut
    /\ registry = NoRegistry
    /\ run = NoRun

\* a convert_RNC that takes the first Dc entry for every RNC terminal
convert_RNC_first_entry(g, p, n_rnc) ==
    IF g.cls = "GeneDc" /\ isRNCTerminal(p)
    THEN LET value == At(g.rnc_array, At(dc(g), 0).val)
         IN [p |-> Terminal(ToString(value), value), n_rnc |-> n_rnc + 1, raised |-> ""]
    ELSE [p |-> p, n_rnc |-> n_rnc, raised |-> ""]

\* convert_RNC of GeneDc.kexpression; Gene.kexpression takes the symbol as
\* it is.  The result: the symbol, the new n_rnc, the exception raised.
convert_RNC(g, p, n_rnc) ==
    IF g.cls = "GeneDc" /\ isRNCTerminal(p)
    THEN IF n_rnc >= Len(dc(g))
         THEN [p |-> p, n_rnc |-> n_rnc, raised |-> "IndexError"]
         ELSE LET index == At(dc(g), n_rnc).val
              IN IF index >= Len(g.rnc_array)
                 THEN [p |-> p, n_rnc |-> n_rnc, raised |-> "IndexError"]
                 ELSE LET value == At(g.rnc_array, index)
                      IN [p |-> Terminal(ToString(value), value),
                          n_rnc |-> n_rnc + 1, raised |-> ""]
    ELSE [p |-> p, n_rnc |-> n_rnc, raised |-> ""]

\* expr.append(convert_RNC(self[j])); j += 1
kexpression_append(g, fr) ==
    IF fr.j >= Len(g.genome)
    THEN [fr EXCEPT !.raised = "IndexError"]
    ELSE LET c == convert_RNC(g, At(g.genome, fr.j), fr.n_rnc)
         IN IF c.raised # ""
            THEN [fr EXCEPT !.raised = c.raised]
            ELSE [fr EXCEPT !.expr = Append(@, c.p), !.j = @ + 1,
                            !.n_rnc = c.n_rnc]

\* a scan that reads one symbol more than the arity
kexpression_range_one_more(expr, i) == At(expr, i).arity + 1

\* range(expr[i].arity): the number of symbols a pass appends
kexpression_range(expr, i) == At(expr, i).arity

\* for _ in range(...): append, stopping at an exception
RECURSIVE kexpression_for(_, _, _)
kexpression_for(g, fr, count) ==
    IF count = 0 \/ fr.raised # "" THEN fr
    ELSE kexpression_for(g, kexpression_append(g, fr), count - 1)

\* the kexpression property starts: expr = KExpression([self[0]]), i = 0, j = 1;
\* it is read of a new gene or again after it has returned
kexpression ==
    /\ pc \in {"gene", "kexpr"}
    /\ n_ops < MaxDecodes
    /\ n_ops' = n_ops + 1
    /\ LET g == ind1[1]
           c == convert_RNC(g, At(g.genome, 0), 0)
       IN /\ frame' = [expr |-> <<c.p>>, i |-> 0, j |-> 1, n_rnc |-> c.n_rnc,
                       raised |-> c.raised]
          /\ pc' = IF c.raised # "" THEN "raised" ELSE "kexpression"
          /\ out' = [out EXCEPT !.raised = c.raised]
    /\ UNCHANGED <<ind1, ind2, n_trial, last, shape, registry, run>>

\* one pass of its while loop; a Dc entry has no arity
kexpression_loop ==
    /\ pc = "kexpression"
    /\ frame.i < Len(frame.expr)
    /\ LET fr == IF isInt(At(frame.expr, frame.i))
                 THEN [frame EXCEPT !.raised = "AttributeError"]
                 ELSE kexpression_for(ind1[1], frame,
                                      kexpression_range(frame.expr, frame.i))
       IN IF fr.raised # ""
          THEN /\ frame' = fr
               /\ pc' = "raised"
               /\ out' = [out EXCEPT !.raised = fr.raised]
          ELSE /\ frame' = [fr EXCEPT !.i = @ + 1]
               /\ UNCHANGED <<pc, out>>
    /\ UNCHANGED <<ind1, ind2, n_trial, last, n_ops, shape, registry, run>>

\* a return that empties the RNC array of the gene
kexpression_return_emptying ==
    /\ pc = "kexpression"
    /\ ~(frame.i < Len(frame.expr))
    /\ out' = [out EXCEPT !.kexpression = frame.expr, !.has = @ \cup {"kexpression"}]
    /\ pc' = "kexpr"
    /\ ind1' = <<[ind1[1] EXCEPT !.rnc_array = <<>>]>>
    /\ UNCHANGED <<ind2, n_trial, last, n_ops, shape, frame, registry, run>>

\* return expr
kexpression_return ==
    /\ pc = "kexpression"
    /\ ~(frame.i < Len(frame.expr))
    /\ out' = [out EXCEPT !.kexpression = frame.expr, !.has = @ \cup {"kexpression"}]
    /\ pc' = "kexpr"
    /\ UNCHANGED <<ind1, ind2, n_trial, last, n_ops, shape, frame, registry, run>>

\* a loop that attaches nodes[j] before it advances j
from_kexpression_child_then_advance(j, k) == j + k - 1

\* j += 1; nodes[j]: the k-th node a pass attaches when it starts with cursor j
from_kexpression_child(j, k) == j + k

\* the while loop of _from_kexpression; a node is its Python index in nodes
RECURSIVE from_kexpression_while(_, _, _, _)
from_kexpression_while(expr, i, j, children) ==
    IF ~(i < Len(expr))
    THEN [names |-> [k \in 1..Len(expr) |-> expr[k].name], children |-> children,
          raised |-> ""]
    ELSE LET a == At(expr, i).arity
             kids == [k \in 1..a |-> from_kexpression_child(j, k)]
         IN IF \E k \in 1..a : kids[k] >= Len(expr)
            THEN [names |-> <<>>, children |-> <<>>, raised |-> "IndexError"]
            ELSE from_kexpression_while(expr, i + 1, j + a, Append(children, kids))

\* ExpressionTree._from_kexpression: the names of the nodes and, for each
\* node, the list of its children; the root is nodes[0]
_from_kexpression(expr) ==
    IF Len(expr) = 0 THEN NoTree ELSE from_kexpression_while(expr, 0, 0, <<>>)

\* ExpressionTree.from_genotype(gene), after gene.kexpression has returned
from_genotype ==
    /\ pc = "kexpr"
    /\ LET tree == _from_kexpression(out.kexpression)
       IN out' = [out EXCEPT !.tree = tree, !.raised = tree.raised,
                             !.has = @ \cup {"tree"}]
    /\ UNCHANGED <<ind1, ind2, pc, n_trial, last, n_ops, shape, frame, registry, run>>

\* a Python str as an element of the list expr
Str(text) == [cls |-> "str", name |-> text, arity |-> 0, id |-> 0, val |-> 0]
isStr(p) == p.cls = "str"

\* ', '.join(args)
RECURSIVE join(_)
join(args) ==
    IF Len(args) = 0 THEN ""
    ELSE IF Len(args) = 1 THEN args[1]
    ELSE args[1] \o ", " \o join(Tail(args))

\* Function.format(*args), Terminal.format() and EphemeralTerminal.format()
format(p, args) ==
    IF isFunction(p) THEN p.name \o "(" \o join(args) \o ")"
    ELSE IF isEphemeralTerminal(p) THEN ToString(p.val)
    ELSE p.name

\* the while loop of Gene.__str__ from index i down: a function takes its
\* arguments from the end of expr and is replaced by its string
RECURSIVE str_while(_, _)
str_while(expr, i) ==
    IF ~(i >= 0) THEN [expr |-> expr, raised |-> ""]
    ELSE IF At(expr, i).arity > 0
    THEN LET f == At(expr, i)
             n == Len(expr)
         IN IF n - f.arity < i + 1
            THEN [expr |-> expr, raised |-> "IndexError"]
            ELSE LET popped == [k \in 1..f.arity |-> expr[n + 1 - k]]
                     args == [k \in 1..f.arity |->
                                 IF isStr(popped[k]) THEN popped[k].name
                                 ELSE format(popped[k], <<>>)]
                     rest == SubSeq(expr, 1, n - f.arity)
                 IN str_while([rest EXCEPT ![i + 1] = Str(format(f, reversed(args)))],
                              i - 1)
    ELSE str_while(expr, i - 1)

\* Gene.__str__, after self.kexpression has returned; GeneDc.__str__ is the
\* same loop, and the branches it has for RNC terminals are never taken,
\* since GeneDc.kexpression has replaced them
Gene_str ==
    /\ pc = "kexpr"
    /\ LET r == str_while(out.kexpression, Len(out.kexpression) - 1)
       IN out' = [out EXCEPT
                    !.str = IF r.raised # "" THEN ""
                            ELSE IF isStr(At(r.expr, 0)) THEN At(r.expr, 0).name
                            ELSE format(At(r.expr, 0), <<>>),
                    !.raised = r.raised,
                    !.has = @ \cup {"str"}]
    /\ UNCHANGED <<ind1, ind2, pc, n_trial, last, n_ops, shape, frame, registry, run>>

NextDecode ==
    \/ kexpression
    \/ kexpression_loop
    \/ kexpression_return
    \/ from_genotype
    \/ Gene_str
SpecDecode == InitDecode /\ [][NextDecode]_vars

\* the interpreter runs the loop of kexpression to its end
FairSpecDecode ==
    SpecDecode /\ WF_vars(kexpression_loop) /\ WF_vars(kexpression_return)

----------------------------------------------------------------------------
(* geppy/core/symbol.py: a PrimitiveSet is constructed with input names    *)
(* and then filled by add_function, add_symbol_terminal and                *)
(* add_ephemeral_terminal.  n_ops counts the insertions, last is the last  *)
(* one: its name is PsetNames[last.a], last.raised says it failed with     *)
(* AssertionError.                                                         *)

\* the names given to the insertions; "if" is a keyword
PsetNames == <<"x", "y", "if">>

_is_nonkeyword_identifier(var) == var # "if"

\* _assert_name_unique: the assertion holds
_assert_name_unique(reg, name) == name \notin DOMAIN reg.globals

\* PrimitiveSet(name, input_names) for input names that do not make it fail
InitPset ==
    /\ \E input_names \in {<<>>, <<"x">>, <<"y">>, <<"x", "y">>, <<"y", "x">>} :
          registry =
              [functions |-> <<>>,
               terminals |-> [i \in 1..Len(input_names) |-> SymbolTerminal(input_names[i])],
               globals |-> [n \in {"__builtins__"} \cup
                                  {input_names[i] : i \in 1..Len(input_names)} |->
                               IF n = "__builtins__" THEN "None" ELSE "input"]]
    /\ ind1 = <<>>
    /\ ind2 = <<>>
    /\ shape = NoShape
    /\ pc = "pset"
    /\ n_trial = 0
    /\ last = NoCall
    /\ n_ops = 0
    /\ frame = NoFrame
    /\ out = NoOut
    /\ run = NoRun

\* add_function(func, arity, name)
add_function ==
    /\ pc = "pset" /\ n_ops < MaxInserts
    /\ \E k \in 0..(Len(PsetNames) - 1), arity \in 1..2 :
          LET name == At(PsetNames, k)
              ok == _assert_name_unique(registry, name) /\ _is_nonkeyword_identifier(name)
          IN /\ registry' =
                   IF ok
                   THEN [registry EXCEPT
                           !.functions = Append(@, Function(name, arity)),
                           !.globals = [n \in DOMAIN @ \cup {name} |->
                                           IF n = name THEN "func" ELSE @[n]]]
                   ELSE registry
             /\ last' = Call("add_function", ~ok, 0, 0, k, arity, 0)
    /\ n_ops' = n_ops + 1
    /\ UNCHANGED <<ind1, ind2, pc, n_trial, shape, frame, out, run>>

\* add_symbol_terminal(name, value)
add_symbol_terminal ==
    /\ pc = "pset" /\ n_ops < MaxInserts
    /\ \E k \in 0..(Len(PsetNames) - 1) :
          LET name == At(PsetNames, k)
              ok == _assert_name_unique(registry, name) /\ _is_nonkeyword_identifier(name)
          IN /\ registry' =
                   IF ok
                   THEN [registry EXCEPT
                           !.terminals = Append(@, SymbolTerminal(name)),
                           !.globals = [n \in DOMAIN @ \cup {name} |->
                                           IF n = name THEN "value" ELSE @[n]]]
                   ELSE registry
             /\ last' = Call("add_symbol_terminal", ~ok, 0, 0, k, 0, 0)
    /\ n_ops' = n_ops + 1
    /\ UNCHANGED <<ind1, ind2, pc, n_trial, shape, frame, out, run>>

\* add_ephemeral_terminal(name, gen): the new terminal holds a value of gen()
add_ephemeral_terminal ==
    /\ pc = "pset" /\ n_ops < MaxInserts
    /\ \E k \in 0..(Len(PsetNames) - 1), v \in EphVals :
          LET name == At(PsetNames, k)
              ok == _assert_name_unique(registry, name)
          IN /\ registry' =
                   IF ok
                   THEN [registry EXCEPT
                           !.terminals = Append(@, EphemeralTerminal(name, 0, v))]
                   ELSE registry
             /\ last' = Call("add_ephemeral_terminal", ~ok, 0, 0, k, 0, 0)
    /\ n_ops' = n_ops + 1
    /\ UNCHANGED <<ind1, ind2, pc, n_trial, shape, frame, out, run>>

NextPset ==
    \/ add_function
    \/ add_symbol_terminal
    \/ add_ephemeral_terminal
SpecPset == InitPset /\ [][NextPset]_vars

----------------------------------------------------------------------------
(* geppy/core/entity.py: ExpressionTree.from_genotype(chromosome).  The    *)
(* objects it builds are records: cls is the Python class of the object,   *)
(* the other fields are its attributes.                                    *)

\* the while loop of the kexpression property, run to its end
RECURSIVE kexpression_while(_, _)
kexpression_while(g, fr) ==
    IF fr.raised # "" \/ ~(fr.i < Len(fr.expr)) THEN fr
    ELSE IF isInt(At(fr.expr, fr.i)) THEN [fr EXCEPT !.raised = "AttributeError"]
    ELSE LET f == kexpression_for(g, fr, kexpression_range(fr.expr, fr.i))
         IN kexpression_while(g, IF f.raised # "" THEN f ELSE [f EXCEPT !.i = @ + 1])

\* gene.kexpression of a gene on which it does not raise
kexpression_of(g) ==
    LET c == convert_RNC(g, At(g.genome, 0), 0)
    IN kexpression_while(g, [expr |-> <<c.p>>, i |-> 0, j |-> 1, n_rnc |-> c.n_rnc,
                             raised |-> c.raised]).expr

\* the ExpressionTree.Node object nodes[i] of _from_kexpression
RECURSIVE Node(_, _)
Node(tree, i) ==
    [cls |-> "Node", name |-> At(tree.names, i),
     children |-> [k \in 1..Len(At(tree.children, i)) |->
                      Node(tree, At(tree.children, i)[k])]]

\* cls(root): an ExpressionTree object
ExpressionTree(root) == [cls |-> "ExpressionTree", root |-> root]

\* Chromosome.linker, as the __name__ of the function
linker(individual, _linker) ==
    IF _linker = "None" /\ Len(individual) > 1 THEN "tuple" ELSE _linker

\* from_genotype(genome) for a Chromosome
from_genotype_Chromosome(genome, _linker) ==
    IF Len(genome) = 1
    THEN ExpressionTree(Node(_from_kexpression(kexpression_of(genome[1])), 0))
    ELSE LET sub_trees ==
                 [g \in 1..Len(genome) |->
                     ExpressionTree(Node(_from_kexpression(kexpression_of(genome[g])), 0))]
         IN ExpressionTree([cls |-> "Node", name |-> linker(genome, _linker),
                            children |-> sub_trees])

\* Chromosome(gene_gen, n_genes, linker)
InitLink ==
    /\ \E cls \in {"Gene", "GeneDc"}, h \in 1..MaxHead, n \in 1..MaxGenesOne,
          seed \in 0..MaxSeed, _linker \in {"None", "min"} :
          /\ ind1 = Chromosome(cls, h, n, seed, 0)
          /\ shape = [cls |-> cls, head_length |-> h, n_genes |-> n,
                      rnc_array_length |-> rnc_array_length, linker |-> _linker]
    /\ ind2 = <<>>
    /\ pc = "chromosome"
    /\ n_trial = 0
    /\ last = NoCall
    /\ n_ops = 0
    /\ frame = NoFrame
    /\ out = NoOut
    /\ registry = NoRegistry
    /\ run = NoRun

\* tree = ExpressionTree.from_genotype(individual)
from_genotype_call ==
    /\ pc = "chromosome"
    /\ out' = [out EXCEPT !.tree = from_genotype_Chromosome(ind1, shape.linker),
                          !.has = @ \cup {"tree"}]
    /\ pc' = "tree"
    /\ UNCHANGED <<ind1, ind2, n_trial, last, n_ops, shape, frame, registry, run>>

NextLink == from_genotype_call
SpecLink == InitLink /\ [][NextLink]_vars

----------------------------------------------------------------------------
(* Operator calls and clones on chromosomes built in either way.           *)

\* the chromosomes of Init, and chromosomes whose genes were all built by
\* GeneDc.from_genome from one array the caller holds (identity 1)
InitArrays ==
    \/ Constructed(MaxHead, MaxGenes)
    \/ /\ \E h \in 1..MaxHead, n \in 1..MaxGenes, seed \in 0..MaxSeed :
             LET c1 == Chromosome("GeneDc", h, n, seed, 0)
                 c2 == Chromosome("GeneDc", h, n, seed + 1, 16 * n)
                 rnc_array == PyList(1, c1[1].rnc_array)
             IN /\ ind1 = [g \in 1..n |->
                              from_genome("GeneDc", c1[g].genome, h, rnc_array,
                                          16 * (g - 1) + 2)]
                /\ ind2 = [g \in 1..n |->
                              from_genome("GeneDc", c2[g].genome, h, rnc_array,
                                          16 * (n + g - 1) + 2)]
                /\ shape = [cls |-> "GeneDc", head_length |-> h, n_genes |-> n,
                            rnc_array_length |-> rnc_array_length, linker |-> "None"]
       /\ pc = "idle"
       /\ n_trial = 0
       /\ last = NoCall
       /\ n_ops = 0
       /\ frame = NoFrame
       /\ out = NoOut
       /\ registry = NoRegistry
       /\ run = NoRun
SpecArrays == InitArrays /\ [][Next]_vars

----------------------------------------------------------------------------
(* geppy/algorithms/basic.py: gep_simple and gep_rnc.  An individual is an *)
(* object [id, genome, valid, fit]: its identity, what its genes hold (one *)
(* of GenomeVals), fitness.valid and fitness.values.  A list holds         *)
(* objects, and a write to an object is seen in every list that holds it.  *)
(* A probability is 0, 1 or 2, for 0, 0.5 and 1.  The toolbox of a run is  *)
(* run.registered, the aliases registered, and run.pbs, the pairs          *)
(* <<alias, probability>> of Toolbox.pbs in the order of insertion;        *)
(* run.args are the probability arguments of the call.                     *)

\* what the genes of an individual can hold
GenomeVals == {0, 1}

\* the aliases in the order in which _modify and _crossover look them up
ModifyAliases ==
    <<"mutate", "invert", "is_transpose", "ris_transpose", "gene_transpose",
      "mutate_dc", "invert_dc", "transpose_dc", "mutate_rnc_array">>
CrossoverAliases == <<"crossover_one_point", "crossover_two_point", "crossover_gene">>

\* toolbox.evaluate(ind): the fitness is a function of the genes
evaluate(genome) == genome

\* tools.selBest(individuals, k): k of the individuals, best first
selBest(individuals, k) ==
    {e \in [1..Min(k, Len(individuals)) -> 1..Len(individuals)] :
        /\ \A a, b \in DOMAIN e : a < b =>
              /\ e[a] # e[b]
              /\ individuals[e[a]].fit >= individuals[e[b]].fit
        /\ \A a \in DOMAIN e : \A j \in 1..Len(individuals) :
              (\A b \in DOMAIN e : e[b] # j) =>
                  individuals[e[a]].fit >= individuals[j].fit}

\* the objects ids get the genes genomes[id] from an operator, and
\* del ind.fitness.values: the list as seen afterwards
Write(list, ids, genomes) ==
    [i \in 1..Len(list) |->
        IF list[i].id \in ids
        THEN [list[i] EXCEPT !.genome = genomes[list[i].id], !.valid = FALSE]
        ELSE list[i]]

\* the operator alias was applied with probability pb to the objects ids
OperatorApplied(r, alias, pb, ids, genomes) ==
    [r EXCEPT !.population = Write(r.population, ids, genomes),
              !.elites = Write(r.elites, ids, genomes),
              !.offspring = Write(r.offspring, ids, genomes),
              !.applied = Append(r.applied, <<alias, pb>>),
              !.touched = r.touched \cup ids]

\* gep_simple(population, toolbox, ...) or gep_rnc(population, toolbox, ...)
\* is called with a population that is not evaluated yet
InitRun ==
    /\ \E genomes \in [1..PopSize -> GenomeVals], n_elites \in 0..MaxElites,
          algorithm \in {"gep_simple", "gep_rnc"}, mutation_pb \in {1, 2},
          first \in {"mutate", "invert"} :
       LET n_generations == MaxGenerations
           inversion_pb == 1
           \* gep_simple passes no dc_mutpb to _modify, which is then 0
           dc_mutation_pb == IF algorithm = "gep_rnc" THEN 1 ELSE 0
       IN
          run = [pc |-> "evaluate", gen |-> 0, algorithm |-> algorithm,
                 n_elites |-> n_elites, n_generations |-> n_generations,
                 population |-> [i \in 1..PopSize |->
                                    [id |-> i, genome |-> genomes[i],
                                     valid |-> FALSE, fit |-> 0]],
                 elites |-> <<>>, offspring |-> <<>>, k |-> 0,
                 applied |-> <<>>, touched |-> {}, evaluated |-> {},
                 registered |-> {"mutate", "invert", "mutate_dc", "crossover_one_point"},
                 args |-> [a \in {ModifyAliases[i] : i \in DOMAIN ModifyAliases} \cup
                                 {CrossoverAliases[i] : i \in DOMAIN CrossoverAliases} |->
                              IF a = "mutate" THEN mutation_pb
                              ELSE IF a = "invert" THEN inversion_pb
                              ELSE IF a = "crossover_one_point" THEN 1
                              ELSE IF a = "mutate_dc" THEN dc_mutation_pb
                              ELSE 0],
                 pbs |-> (IF first = "mutate"
                          THEN <<(<<"mutate", mutation_pb>>), (<<"invert", inversion_pb>>)>>
                          ELSE <<(<<"invert", inversion_pb>>), (<<"mutate", mutation_pb>>)>>)
                         \o <<(<<"mutate_dc", 1>>), (<<"crossover_one_point", 1>>)>>]
    /\ ind1 = <<>>
    /\ ind2 = <<>>
    /\ shape = NoShape
    /\ pc = "run"
    /\ n_trial = 0
    /\ last = NoCall
    /\ n_ops = 0
    /\ frame = NoFrame
    /\ out = NoOut
    /\ registry = NoRegistry

\* the start of a generation: the invalid individuals are evaluated
gep_evaluate ==
    /\ run.pc = "evaluate"
    /\ LET population == run.population
           invalid_individuals == {i \in 1..Len(population) : ~population[i].valid}
       IN run' = [run EXCEPT
                    !.population =
                        [i \in 1..Len(population) |->
                            IF i \in invalid_individuals
                            THEN [id |-> population[i].id, genome |-> population[i].genome,
                                  valid |-> TRUE, fit |-> evaluate(population[i].genome)]
                            ELSE population[i]],
                    !.evaluated = {population[i].id : i \in invalid_individuals},
                    !.touched = {},
                    !.pc = "record"]
    /\ UNCHANGED <<ind1, ind2, pc, n_trial, last, n_ops, shape, frame, out, registry>>

\* hall_of_fame.update, stats.compile, logbook.record; the last generation
\* ends the loop
gep_record ==
    /\ run.pc = "record"
    /\ run' = [run EXCEPT !.pc = IF run.gen = run.n_generations THEN "done" ELSE "select"]
    /\ UNCHANGED <<ind1, ind2, pc, n_trial, last, n_ops, shape, frame, out, registry>>

\* elites = tools.selBest(...); offspring = toolbox.select(population,
\* len(population) - n_elites), any individuals of the population
gep_select ==
    /\ run.pc = "select"
    /\ \E e \in selBest(run.population, run.n_elites),
          chosen \in [1..(Len(run.population) - run.n_elites) -> 1..Len(run.population)] :
          run' = [run EXCEPT
                    !.elites = [a \in DOMAIN e |-> run.population[e[a]]],
                    !.offspring = [j \in DOMAIN chosen |-> run.population[chosen[j]]],
                    !.pc = "replicate"]
    /\ UNCHANGED <<ind1, ind2, pc, n_trial, last, n_ops, shape, frame, out, registry>>

\* a _modify that works on the selected individuals themselves
replicate_none ==
    /\ run.pc = "replicate"
    /\ run' = [run EXCEPT !.pc = "modify", !.k = 1]
    /\ UNCHANGED <<ind1, ind2, pc, n_trial, last, n_ops, shape, frame, out, registry>>

\* _modify(..., rep=True): offspring = [toolbox.clone(ind) for ind in
\* population], new objects with the genes and the fitness of the old
replicate ==
    /\ run.pc = "replicate"
    /\ run' = [run EXCEPT
                 !.offspring = [j \in 1..Len(run.offspring) |->
                                   [run.offspring[j] EXCEPT !.id = 16 * (run.gen + 1) + j]],
                 !.pc = "modify", !.k = 1]
    /\ UNCHANGED <<ind1, ind2, pc, n_trial, last, n_ops, shape, frame, out, registry>>

\* an _apply_modification that keeps the fitness of what it modifies
_apply_modification_keeping_fitness ==
    /\ run.pc = "modify"
    /\ LET alias == ModifyAliases[run.k]
           pb == run.args[alias]
           after == IF run.k = Len(ModifyAliases)
                    THEN [run EXCEPT !.pc = "crossover", !.k = 1]
                    ELSE [run EXCEPT !.k = run.k + 1]
       IN IF alias \notin run.registered
          THEN run' = after
          ELSE \E S \in SUBSET (1..Len(run.offspring)) :
                  /\ pb = 0 => S = {}
                  /\ pb = 2 => S = 1..Len(run.offspring)
                  /\ LET ids == {run.offspring[i].id : i \in S}
                     IN \E genomes \in [ids -> GenomeVals] :
                           run' = [OperatorApplied(after, alias, pb, ids, genomes)
                                      EXCEPT !.population = after.population,
                                             !.elites = after.elites,
                                             !.offspring =
                                                 [i \in 1..Len(after.offspring) |->
                                                     IF after.offspring[i].id \in ids
                                                     THEN [after.offspring[i] EXCEPT
                                                             !.genome = genomes[after.offspring[i].id]]
                                                     ELSE after.offspring[i]]]
    /\ UNCHANGED <<ind1, ind2, pc, n_trial, last, n_ops, shape, frame, out, registry>>

\* one if hasattr(toolbox, alias): _apply_modification(offspring, operator,
\* pb) of _modify: the operator acts in place on each individual for which
\* random.random() < pb
_apply_modification ==
    /\ run.pc = "modify"
    /\ LET alias == ModifyAliases[run.k]
           pb == run.args[alias]
           after == IF run.k = Len(ModifyAliases)
                    THEN [run EXCEPT !.pc = "crossover", !.k = 1]
                    ELSE [run EXCEPT !.k = run.k + 1]
       IN IF alias \notin run.registered
          THEN run' = after
          ELSE \E S \in SUBSET (1..Len(run.offspring)) :
                  /\ pb = 0 => S = {}
                  /\ pb = 2 => S = 1..Len(run.offspring)
                  /\ LET ids == {run.offspring[i].id : i \in S}
                     IN \E genomes \in [ids -> GenomeVals] :
                           run' = OperatorApplied(after, alias, pb, ids, genomes)
    /\ UNCHANGED <<ind1, ind2, pc, n_trial, last, n_ops, shape, frame, out, registry>>

\* one if hasattr(toolbox, alias): _apply_crossover(offspring, operator, pb)
\* of _crossover(..., rep=False): the operator acts in place on the pairs
\* (population[i - 1], population[i]), i = 1, 3, ..., for which
\* random.random() < pb
_apply_crossover ==
    /\ run.pc = "crossover"
    /\ LET alias == CrossoverAliases[run.k]
           pb == run.args[alias]
           pairs == {i \in 1..(Len(run.offspring) - 1) : i % 2 = 1}
           after == IF run.k = Len(CrossoverAliases)
                    THEN [run EXCEPT !.pc = "replace", !.k = 0]
                    ELSE [run EXCEPT !.k = run.k + 1]
       IN IF alias \notin run.registered
          THEN run' = after
          ELSE \E S \in SUBSET pairs :
                  /\ pb = 0 => S = {}
                  /\ pb = 2 => S = pairs
                  /\ LET ids == {run.offspring[i].id : i \in S} \cup
                                {run.offspring[i + 1].id : i \in S}
                     IN \E genomes \in [ids -> GenomeVals] :
                           run' = OperatorApplied(after, alias, pb, ids, genomes)
    /\ UNCHANGED <<ind1, ind2, pc, n_trial, last, n_ops, shape, frame, out, registry>>

\* population = elites + offspring, and the next pass of the loop
gep_replace ==
    /\ run.pc = "replace"
    /\ run' = [run EXCEPT !.population = run.elites \o run.offspring,
                          !.elites = <<>>, !.offspring = <<>>, !.applied = <<>>,
                          !.gen = run.gen + 1, !.pc = "evaluate"]
    /\ UNCHANGED <<ind1, ind2, pc, n_trial, last, n_ops, shape, frame, out, registry>>

NextRun ==
    \/ gep_evaluate
    \/ gep_record
    \/ gep_select
    \/ replicate
    \/ _apply_modification
    \/ _apply_crossover
    \/ gep_replace
SpecRun == InitRun /\ [][NextRun]_vars

----------------------------------------------------------------------------
(* Properties of the operators *)

Genes == {ind1[g] : g \in 1..Len(ind1)} \cup {ind2[g] : g \in 1..Len(ind2)}

\* the gene has the head, tail and Dc lengths it was constructed with, no
\* function in its tail, and a Dc domain of indices into its own RNC array
StructureOK(g) ==
    LET h == shape.head_length
        t == TailLengthRule(h, max_arity(pset))
    IN /\ g.head_length = h
       /\ tail_length(g) = t
       /\ Len(g.genome) = IF shape.cls = "GeneDc" THEN h + t + t ELSE h + t
       /\ \A i \in 1..Len(g.genome) :
             IF i <= h THEN isFunction(g.genome[i]) \/ isTerminal(g.genome[i])
             ELSE IF i <= h + t THEN isTerminal(g.genome[i])
             ELSE /\ isInt(g.genome[i])
                  /\ g.genome[i].val \in 0..(Len(g.rnc_array) - 1)

\* C1: after any sequence of operator calls on chromosomes of one shape every
\* gene has its original head, tail and Dc lengths, holds no function in its
\* tail or Dc domain, and every Dc entry is an index into its own RNC array.
C1_OperatorsPreserveStructure == \A g \in Genes : StructureOK(g)

\* two calls made, the second a Dc transposition between two different genes
\* that changed the donee
C1_Witness ==
    /\ n_ops >= 2
    /\ last.op = "transpose_dc"
    /\ ~last.raised
    /\ shape.n_genes = 2
    /\ last.i1 # last.i2
    /\ dc(ind1[1]) # dc(Chromosome(shape.cls, shape.head_length, shape.n_genes, 0, 0)[1])
    /\ dc(ind1[1]) # dc(Chromosome(shape.cls, shape.head_length, shape.n_genes, 1, 0)[1])
    /\ dc(ind1[1]) # dc(Chromosome(shape.cls, shape.head_length, shape.n_genes, 2, 0)[1])

\* C2: a gene built by Gene(pset, h) has length h + t, t = h*(max_arity-1)+1,
\* a function or a terminal at each of the positions 0..h-1 and a terminal at
\* each of h..h+t-1; one built by GeneDc(pset, h, rnc_gen, n) has after them
\* a Dc domain of t integers of [0, n) and has an RNC array of length n.
C2_GeneratedGeneShape ==
    pc = "built" =>
        LET g == ind1[1]
            h == shape.head_length
            n == shape.rnc_array_length
            t == h * (max_arity(pset) - 1) + 1
        IN /\ g.head_length = h
           /\ Len(g.genome) = IF shape.cls = "GeneDc" THEN h + t + t ELSE h + t
           /\ \A i \in 0..(h - 1) :
                 isFunction(At(g.genome, i)) \/ isTerminal(At(g.genome, i))
           /\ \A i \in h..(h + t - 1) : isTerminal(At(g.genome, i))
           /\ shape.cls = "GeneDc" =>
                 /\ \A i \in (h + t)..(h + t + t - 1) :
                       /\ isInt(At(g.genome, i))
                       /\ At(g.genome, i).val \in 0..(n - 1)
                 /\ Len(dc(g)) = t
                 /\ Len(g.rnc_array) = n
           /\ shape.cls = "Gene" => g.rnc_array = <<>>

\* a GeneDc of head length 2 with a function and a terminal in its head and
\* the largest index in its Dc domain
C2_Witness ==
    /\ pc = "built"
    /\ shape.cls = "GeneDc"
    /\ shape.head_length = 2
    /\ shape.rnc_array_length = 2
    /\ isFunction(At(ind1[1].genome, 0))
    /\ isEphemeralTerminal(At(ind1[1].genome, 1))
    /\ isRNCTerminal(At(ind1[1].genome, 4))
    /\ At(ind1[1].genome, 7).val = 1

\* the length of the head and the tail of the decoded gene
HeadTailLength ==
    shape.head_length + shape.head_length * (max_arity(pset) - 1) + 1

\* C3: on a gene with terminals only in its tail and a tail of length
\* head_length*(max_arity-1)+1 the kexpression scan ends, raises nothing,
\* reads no position at or beyond head_length + tail_length (no Dc entry
\* becomes a symbol), and returns at most head_length + tail_length symbols.
C3_KExpressionScanBounded ==
    /\ [](pc \in {"gene", "kexpression", "kexpr"})
    /\ [](pc = "kexpression" =>
            /\ frame.raised = ""
            /\ frame.j <= HeadTailLength
            /\ frame.i <= Len(frame.expr)
            /\ Len(frame.expr) = frame.j
            /\ \A k \in 1..Len(frame.expr) : ~isInt(frame.expr[k]))
    /\ []("kexpression" \in out.has =>
            /\ Len(out.kexpression) \in 1..HeadTailLength
            /\ out.raised = "")
    /\ (pc = "kexpression" ~> pc = "kexpr")

\* the scan of a GeneDc of head length 2 has read its whole head and tail
C3_Witness ==
    /\ pc = "kexpr"
    /\ shape.cls = "GeneDc"
    /\ shape.head_length = 2
    /\ frame.j = HeadTailLength
    /\ Len(out.kexpression) = HeadTailLength
    /\ frame.n_rnc = 2

\* the root and the children of the nodes before node i
Attached(tree, i) ==
    {0} \cup UNION {{tree.children[m][k] : k \in 1..Len(tree.children[m])} : m \in 1..i}

\* C4: the tree of a K-expression produced from a gene has one node per
\* symbol, with the symbol's name; the children of node i are the next
\* arity(i) nodes, in K-expression order, that are not attached yet; every
\* node but the root has exactly one parent, the root has none.
C4_TreeFromKExpression ==
    "tree" \in out.has =>
        LET tree == out.tree
            expr == out.kexpression
            N == Len(expr)
        IN /\ tree.raised = ""
           /\ Len(tree.names) = N
           /\ Len(tree.children) = N
           /\ \A i \in 0..(N - 1) :
                 LET kids == At(tree.children, i)
                     free == (0..(N - 1)) \ Attached(tree, i)
                 IN /\ At(tree.names, i) = At(expr, i).name
                    /\ Len(kids) = At(expr, i).arity
                    /\ \A k \in 1..Len(kids) :
                          /\ kids[k] \in free
                          /\ Cardinality({f \in free : f < kids[k]}) = k - 1
           /\ \A m \in 1..(N - 1) :
                 Cardinality({ik \in (0..(N - 1)) \X (1..N) :
                                 /\ ik[2] <= Len(At(tree.children, ik[1]))
                                 /\ At(tree.children, ik[1])[ik[2]] = m}) = 1
           /\ \A i \in 0..(N - 1) : \A k \in 1..Len(At(tree.children, i)) :
                 At(tree.children, i)[k] # 0

\* the tree of a K-expression of five symbols whose second node is binary
C4_Witness ==
    /\ "tree" \in out.has
    /\ Len(out.kexpression) = 5
    /\ out.tree.children[1] = <<1, 2>>
    /\ out.tree.children[2] = <<3, 4>>
    /\ out.tree.names[2] = "AND"

\* the gene with head [AND, NOT] and tail [a, b, c]
GeneAndNot ==
    from_genome("Gene",
                <<Function("AND", 2), Function("NOT", 1), SymbolTerminal("a"),
                  SymbolTerminal("b"), SymbolTerminal("c")>>, 2, PyList(0, <<>>), 0)

\* the tree below a node, written as name(child, ..., child)
RECURSIVE TreeText(_, _)
TreeText(tree, node) ==
    LET kids == At(tree.children, node)
    IN IF Len(kids) = 0 THEN At(tree.names, node)
       ELSE At(tree.names, node) \o "(" \o
            join([k \in 1..Len(kids) |-> TreeText(tree, kids[k])]) \o ")"

\* what decoding the gene with head [AND, NOT] and tail [a, b, c] gives when
\* the tree and the string are to be written as text
AndNotDecodesTo(text) ==
    ind1 = <<GeneAndNot>> =>
        /\ out.raised = ""
        /\ "kexpression" \in out.has =>
              out.kexpression = <<Function("AND", 2), Function("NOT", 1),
                                  SymbolTerminal("a"), SymbolTerminal("b")>>
        /\ "tree" \in out.has =>
              /\ out.tree.names = <<"AND", "NOT", "a", "b">>
              /\ TreeText(out.tree, 0) = text
        /\ "str" \in out.has => out.str = text

\* C5 (as the code has it): the gene with head [AND, NOT] and tail [a, b, c]
\* has the K-expression [AND, NOT, a, b]; its tree and its string are
\* AND(NOT(b), a): the children of AND are NOT and a, the child of NOT is b.
C5_AndNotExample ==
    /\ AndNotDecodesTo("AND(NOT(b), a)")
    /\ (ind1 = <<GeneAndNot>> /\ "tree" \in out.has) =>
          out.tree.children = <<(<<1, 2>>), (<<3>>), (<<>>), (<<>>)>>

\* C5 (as stated): the gene with head [AND, NOT] and tail [a, b, c] has the
\* K-expression [AND, NOT, a, b]; its tree and its string are AND(NOT(a), b).
C5_AndNotExampleAsStated == AndNotDecodesTo("AND(NOT(a), b)")

\* the example gene is decoded to its tree and its string
C5_Witness ==
    /\ ind1 = <<GeneAndNot>>
    /\ out.has = {"kexpression", "tree", "str"}

\* a step that is a call of op
CallOf(op) == last'.op = op /\ n_ops' = n_ops + 1

\* C6: is_transpose with head_length >= 2 inserts a copy of donor[a..b], of
\* length L in [1, h-1] from the donor's head and tail, at position p in
\* [1, h-1] of the donee's head: positions below p keep their content,
\* positions p..p+L-1 hold the copy, the rest of the head holds the old
\* content from p on shifted right by L, the tail (and Dc) and every other
\* gene are unchanged.
C6_IsTransposeSplice ==
    [][(CallOf("is_transpose") /\ shape.head_length >= 2) =>
        LET donor == ind1[last'.i1 + 1]
            donee == ind1[last'.i2 + 1]
            after == ind1'[last'.i2 + 1]
            h == donee.head_length
            a == last'.a
            b == last'.b
            p == last'.p
            L == b - a + 1
        IN /\ ~last'.raised
           /\ L \in 1..(h - 1)
           /\ 0 <= a /\ b <= donor.head_length + tail_length(donor) - 1
           /\ p \in 1..(h - 1)
           /\ p + L <= h
           /\ Len(after.genome) = Len(donee.genome)
           /\ \A k \in 0..(Len(donee.genome) - 1) :
                 At(after.genome, k) =
                     IF k < p THEN At(donee.genome, k)
                     ELSE IF k < p + L THEN At(donor.genome, a + k - p)
                     ELSE IF k < h THEN At(donee.genome, k - L)
                     ELSE At(donee.genome, k)
           /\ after.head_length = h
           /\ after.rnc_array = donee.rnc_array
           /\ \A g \in 1..Len(ind1) : g # last'.i2 + 1 => ind1'[g] = ind1[g]
           /\ Len(ind1') = Len(ind1)
           /\ ind2' = ind2
    ]_vars

\* an insertion that shifts old head content right, from another gene
C6_Witness ==
    /\ last.op = "is_transpose"
    /\ ~last.raised
    /\ shape.head_length = 3
    /\ last.i1 # last.i2
    /\ last.p = 1
    /\ last.a = last.b
    /\ At(ind1[last.i2 + 1].genome, 1) # At(ind1[last.i2 + 1].genome, 2)

\* the effect of a pass of ris_transpose that found a function in the donor's head
RisEffect ==
    LET donor == ind1[last'.i1 + 1]
        donee == ind1[last'.i2 + 1]
        after == ind1'[last'.i2 + 1]
        h == donee.head_length
        start == last'.a
        L == last'.b
    IN /\ ~last'.raised
       /\ start \in 0..(donor.head_length - 1)
       /\ isFunction(At(donor.genome, start))
       /\ L \in 2..Min(h, donor.head_length + tail_length(donor) - start)
       /\ Len(after.genome) = Len(donee.genome)
       /\ \A k \in 0..(Len(donee.genome) - 1) :
             At(after.genome, k) =
                 IF k < L THEN At(donor.genome, start + k)
                 ELSE IF k < h THEN At(donee.genome, k - L)
                 ELSE At(donee.genome, k)
       /\ isFunction(At(after.genome, 0))
       /\ after.head_length = h

\* a step of ris_transpose whose drawn donor has a function in its head
RisDrewFunction ==
    /\ pc = "ris"
    /\ last'.op = "ris_transpose"
    /\ last'.p = last.p + 1
    /\ function_indices(ind1[last'.i1 + 1]) # {}

\* C7: when the drawn donor's head contains a function, ris_transpose copies
\* L in [2, min(donee.head_length, donor.head_length + donor.tail_length -
\* start)] symbols from a function position start of the donor's head onto
\* donee positions 0..L-1, shifting the old head right and truncating it;
\* position 0 then holds a function, the tail (and Dc) are unchanged.
C7_RisTransposeSplice == [][RisDrewFunction => RisEffect]_vars

\* C7 for chromosomes of head_length >= 2 only
C7_RisTransposeSpliceFromHead2 ==
    [][(RisDrewFunction /\ shape.head_length >= 2) => RisEffect]_vars

\* C8: no operator raises on well-formed chromosomes of equal shape, for any
\* head_length >= 1.
C8_NoOperatorRaises == ~last.raised

\* C9: ris_transpose makes at most 2*len(individual)+1 donor draws; a pass
\* whose donor has no function in its head, and the return after the last
\* pass, leave the chromosomes unchanged and raise nothing; the call ends.
C9_RisTransposeTerminates ==
    /\ [](last.op = "ris_transpose" => last.p <= 2 * Len(ind1) + 1)
    /\ [][(pc = "ris" /\ (pc' = "ris" \/ last'.b = -1)) =>
            (ind1' = ind1 /\ ind2' = ind2 /\ ~last'.raised)]_vars
    /\ (pc = "ris" ~> pc = "idle")

\* every donor drawn had no function: the call returns after 2*len+1 draws
C9_Witness ==
    /\ last.op = "ris_transpose"
    /\ pc = "idle"
    /\ last.b = -1
    /\ last.p = 2 * Len(ind1) + 1
    /\ shape.n_genes = 2
    /\ ~last.raised

\* C10: invert_dc reverses a contiguous subsequence of length in
\* [2, dc_length] inside the Dc domain of one gene, and changes nothing when
\* dc_length < 2.
C10_InvertDcReverses ==
    [][CallOf("invert_dc") =>
        LET g == ind1[last'.i1 + 1]
            start == g.head_length + tail_length(g)
            end == start + dc_length(g) - 1
        IN IF dc_length(g) < 2
           THEN ind1' = ind1
           ELSE \E a \in start..end : \E b \in (a + 1)..end :
                   ind1' = ReplaceGene(ind1, last'.i1,
                               [g EXCEPT !.genome = ReverseSlice(g.genome, a, b + 1)])
    ]_vars

\* how often x occurs in the sequence
Count(seq, x) == Cardinality({k \in 1..Len(seq) : seq[k] = x})

\* the sequences hold the same symbols, each as often
SameMultiset(s1, s2) ==
    \A x \in {s1[k] : k \in 1..Len(s1)} \cup {s2[k] : k \in 1..Len(s2)} :
        Count(s1, x) = Count(s2, x)

\* C11: invert reverses one contiguous subsequence of length in
\* [2, head_length] inside the head of one gene: the gene keeps its lengths
\* and its multiset of symbols, its tail (and Dc domain) and the other genes
\* are unchanged; with head_length < 2 the chromosome is unchanged.
C11_InvertReversesInHead ==
    [][CallOf("invert") =>
        /\ ~last'.raised
        /\ ind2' = ind2
        /\ Len(ind1') = Len(ind1)
        /\ IF shape.head_length < 2
           THEN ind1' = ind1
           ELSE LET gi == last'.i1
                    gene == ind1[gi + 1]
                    after == ind1'[gi + 1]
                    h == gene.head_length
                    a == last'.a
                    b == last'.b - 1
                IN /\ 0 <= a /\ b <= h - 1
                   /\ b - a + 1 \in 2..h
                   /\ Len(after.genome) = Len(gene.genome)
                   /\ after.head_length = h
                   /\ tail_length(after) = tail_length(gene)
                   /\ \A k \in 0..(Len(gene.genome) - 1) :
                         At(after.genome, k) =
                             IF a <= k /\ k <= b THEN At(gene.genome, a + b - k)
                             ELSE At(gene.genome, k)
                   /\ SameMultiset(after.genome, gene.genome)
                   /\ after.rnc_array = gene.rnc_array
                   /\ \A g \in 1..Len(ind1) : g # gi + 1 => ind1'[g] = ind1[g]
    ]_vars

\* the whole head of a gene of head length 3 was reversed and changed
C11_Witness ==
    /\ last.op = "invert"
    /\ ~last.raised
    /\ shape.head_length = 3
    /\ last.a = 0
    /\ last.b = 3
    /\ shape.n_genes = 2
    /\ At(ind1[last.i1 + 1].genome, 0) # At(ind1[last.i1 + 1].genome, 2)

\* the position <<g, k>> lies after <<g1, p1>> and before <<g2, p2>>
StrictlyBetween(g, k, g1, p1, g2, p2) ==
    /\ g > g1 \/ (g = g1 /\ k > p1)
    /\ g < g2 \/ (g = g2 /\ k < p2)

\* the position <<g, k>> lies between <<g1, p1>> and <<g2, p2>> or is one of them
BetweenOrAt(g, k, g1, p1, g2, p2) ==
    /\ g > g1 \/ (g = g1 /\ k >= p1)
    /\ g < g2 \/ (g = g2 /\ k <= p2)

\* the symbols of the positions in the set were exchanged between the two
\* chromosomes, all other symbols stayed
Exchanged(positions) ==
    /\ Len(ind1') = Len(ind1) /\ Len(ind2') = Len(ind2)
    /\ \A g \in 0..(Len(ind1) - 1) :
          /\ Len(At(ind1', g).genome) = Len(At(ind1, g).genome)
          /\ Len(At(ind2', g).genome) = Len(At(ind2, g).genome)
          /\ \A k \in 0..(Len(At(ind1, g).genome) - 1) :
                IF <<g, k>> \in positions
                THEN /\ At(At(ind1', g).genome, k) = At(At(ind2, g).genome, k)
                     /\ At(At(ind2', g).genome, k) = At(At(ind1, g).genome, k)
                ELSE /\ At(At(ind1', g).genome, k) = At(At(ind1, g).genome, k)
                     /\ At(At(ind2', g).genome, k) = At(At(ind2, g).genome, k)

\* all positions of the chromosome ind1
Positions ==
    UNION {{<<g, k>> : k \in 0..(Len(At(ind1, g).genome) - 1)} : g \in 0..(Len(ind1) - 1)}

\* C12: crossover_two_point exchanges exactly the material strictly between
\* the cut points (g1, p1) and (g2, p2); the symbols at the two cut
\* positions stay with their chromosome, also when g1 = g2.
C12_TwoPointStrictlyBetween ==
    [][CallOf("crossover_two_point") =>
        Exchanged({q \in Positions :
                      StrictlyBetween(q[1], q[2], last'.i1, last'.a, last'.i2, last'.b)})
    ]_vars

\* crossover_two_point as the code has it: the two cut positions are
\* exchanged with the material between them
TwoPointWithCutPositions ==
    [][CallOf("crossover_two_point") =>
        Exchanged({q \in Positions :
                      BetweenOrAt(q[1], q[2], last'.i1, last'.a, last'.i2, last'.b)})
    ]_vars

\* C13: crossover_one_point with gene index g and position p exchanges the
\* genes below g and the positions 0..p of gene g, and nothing else; both
\* chromosomes keep their gene count and their gene lengths.
C13_OnePointExchangesUpstream ==
    [][CallOf("crossover_one_point") =>
        LET g == last'.i1
            p == last'.a
        IN /\ ~last'.raised
           /\ g \in 0..(Len(ind1) - 1)
           /\ p \in 0..(Len(At(ind1, g).genome) - 1)
           /\ Exchanged({q \in Positions : q[1] < g \/ (q[1] = g /\ q[2] <= p)})
           /\ \A k \in 0..(Len(ind1) - 1) :
                 IF k < g THEN At(ind1', k) = At(ind2, k) /\ At(ind2', k) = At(ind1, k)
                 ELSE /\ At(ind1', k).rnc_array = At(ind1, k).rnc_array
                      /\ At(ind2', k).rnc_array = At(ind2, k).rnc_array
                      /\ At(ind1', k).head_length = At(ind1, k).head_length
                      /\ At(ind2', k).head_length = At(ind2, k).head_length
                      /\ k > g => At(ind1', k) = At(ind1, k) /\ At(ind2', k) = At(ind2, k)
    ]_vars

\* a cut in the second gene, at a position where the parents differ, below
\* a position where they differ
C13_Witness ==
    /\ last.op = "crossover_one_point"
    /\ shape.n_genes = 2
    /\ last.i1 = 1
    /\ last.a = 1
    /\ At(At(ind1, 1).genome, 1) # At(At(ind2, 1).genome, 1)
    /\ At(At(ind1, 1).genome, 2) # At(At(ind2, 1).genome, 2)
    /\ At(ind1, 0) # At(ind2, 0)

\* the chromosomes differ in their gene count or in the length of a gene
ShapesDiffer ==
    \/ Len(ind1) # Len(ind2)
    \/ \E g \in 1..Len(ind1) : Len(ind1[g].genome) # Len(ind2[g].genome)

\* C14: a crossover operator applied to two chromosomes with different gene
\* counts or different gene lengths fails with an error and leaves both
\* chromosomes unchanged.
C14_CrossoverShapeMismatchFails ==
    [][(ShapesDiffer /\ n_ops' = n_ops + 1) =>
        (last'.raised /\ ind1' = ind1 /\ ind2' = ind2)]_vars

\* crossover on chromosomes of different gene counts as the code has it: the
\* assertion fails and nothing is changed
GeneCountMismatchFails ==
    [][(Len(ind1) # Len(ind2) /\ n_ops' = n_ops + 1) =>
        (last'.raised /\ ind1' = ind1 /\ ind2' = ind2)]_vars

\* crossover_gene exchanges gene pos1 of ind1 and gene pos2 of ind2 and leaves
\* every other gene in place
CrossoverGeneExchanges ==
    LET pos1 == last'.i1
        pos2 == last'.i2
    IN /\ ~last'.raised
       /\ pos1 \in 0..(Len(ind1) - 1) /\ pos2 \in 0..(Len(ind2) - 1)
       /\ Len(ind1') = Len(ind1) /\ Len(ind2') = Len(ind2)
       /\ At(ind1', pos1) = At(ind2, pos2)
       /\ At(ind2', pos2) = At(ind1, pos1)
       /\ \A g \in 0..(Len(ind1) - 1) : g # pos1 => At(ind1', g) = At(ind1, g)
       /\ \A g \in 0..(Len(ind2) - 1) : g # pos2 => At(ind2', g) = At(ind2, g)

\* C15: crossover_gene picks one gene index per parent and exchanges those
\* two whole genes, leaving every other gene in place; on two single-gene
\* chromosomes each chromosome holds the same gene content as before.
C15_CrossoverGeneExchanges ==
    [][CallOf("crossover_gene") =>
        /\ CrossoverGeneExchanges
        /\ Len(ind1) = 1 => (ind1' = ind1 /\ ind2' = ind2)
    ]_vars

\* the exchange alone, as the code has it for every gene count
CrossoverGeneExchangesAlways ==
    [][CallOf("crossover_gene") => CrossoverGeneExchanges]_vars

\* the symbols of all genes of a chromosome, gene after gene
RECURSIVE Symbols(_)
Symbols(individual) ==
    IF Len(individual) = 0 THEN <<>>
    ELSE individual[1].genome \o Symbols(Tail(individual))

\* C16: after one crossover_one_point, crossover_two_point or crossover_gene
\* on two chromosomes of one shape the multiset of symbols of the two
\* offspring equals the multiset of symbols of the two parents.
C16_CrossoverKeepsSymbols ==
    [][(\/ CallOf("crossover_one_point")
        \/ CallOf("crossover_two_point")
        \/ CallOf("crossover_gene")) =>
        /\ ~last'.raised
        /\ SameMultiset(Symbols(ind1') \o Symbols(ind2'), Symbols(ind1) \o Symbols(ind2))
    ]_vars

\* genes of different indices, with different symbols, were exchanged
C16_Witness ==
    /\ last.op = "crossover_gene"
    /\ last.i1 # last.i2
    /\ ~SameMultiset(At(ind1, last.i1).genome, At(ind2, last.i2).genome)
    /\ shape.head_length = 3

\* C17: GeneDc.kexpression replaces the k-th RNC terminal of the scan (k from
\* 0) by a terminal whose value is rnc_array[dc[k]] and whose name is that
\* value's string, takes every other symbol as it is, and k stays below
\* dc_length.
C17_RncResolvedFromDc ==
    /\ (pc = "kexpression" /\ shape.cls = "GeneDc") =>
          /\ frame.n_rnc <= dc_length(ind1[1])
          /\ frame.raised = ""
    /\ ("kexpression" \in out.has /\ shape.cls = "GeneDc") =>
          LET g == ind1[1]
              expr == out.kexpression
          IN \A m \in 0..(Len(expr) - 1) :
                LET k == Cardinality({q \in 0..(m - 1) : isRNCTerminal(At(g.genome, q))})
                IN IF isRNCTerminal(At(g.genome, m))
                   THEN /\ k < dc_length(g)
                        /\ At(expr, m).cls = "Terminal"
                        /\ At(expr, m).arity = 0
                        /\ At(expr, m).val = At(g.rnc_array, At(dc(g), k).val)
                        /\ At(expr, m).name = ToString(At(g.rnc_array, At(dc(g), k).val))
                   ELSE At(expr, m) = At(g.genome, m)

\* a K-expression with as many RNC terminals as the Dc domain has entries,
\* resolved to different values
C17_Witness ==
    /\ "kexpression" \in out.has
    /\ shape.cls = "GeneDc"
    /\ shape.head_length = 2
    /\ frame.n_rnc = 3
    /\ At(out.kexpression, 2).val # At(out.kexpression, 3).val

\* the names of the registered functions and terminals, in the order of the lists
RegisteredNames(reg) ==
    [i \in 1..Len(reg.functions) |-> reg.functions[i].name] \o
    [i \in 1..Len(reg.terminals) |-> reg.terminals[i].name]

\* no name is registered twice
NamesUnique(names) == \A i, j \in 1..Len(names) : names[i] = names[j] => i = j

\* C18: after any sequence of PrimitiveSet insertions (input names,
\* add_function, add_symbol_terminal, add_ephemeral_terminal) no two
\* registered functions or terminals share a name, and an insertion whose
\* name is registered already fails and changes nothing.
C18_RegistryNamesUnique ==
    /\ [](pc = "pset" => NamesUnique(RegisteredNames(registry)))
    /\ [][(pc = "pset" /\ n_ops' = n_ops + 1
            /\ \E i \in 1..Len(RegisteredNames(registry)) :
                   RegisteredNames(registry)[i] = At(PsetNames, last'.a)) =>
           (last'.raised /\ registry' = registry)]_vars

\* the registry as the code keeps it: the functions and the symbol terminals
\* have different names, and a failed insertion changes nothing
GlobalsNamesUnique ==
    /\ [](pc = "pset" =>
            NamesUnique(RegisteredNames(
                [registry EXCEPT !.terminals =
                    SelectSeq(@, LAMBDA t : ~isEphemeralTerminal(t))])))
    /\ [][(pc = "pset" /\ last'.raised) => registry' = registry]_vars

\* C19: transpose_dc copies donor[a..b], a piece of the donor's Dc domain,
\* to position p of the donee's Dc domain, with the whole copy inside the Dc
\* domain: positions below p keep their content, positions p..p+L-1 hold the
\* copy, the rest of the Dc holds the old content from p on shifted right by
\* L; the gene length, the head, the tail and the Dc length of the donee and
\* every other gene are unchanged.
C19_TransposeDcSplice ==
    [][CallOf("transpose_dc") =>
        LET donor == ind1[last'.i1 + 1]
            donee == ind1[last'.i2 + 1]
            after == ind1'[last'.i2 + 1]
            dc_start == donee.head_length + tail_length(donee)
            dc_end == Len(donee.genome) - 1
            a == last'.a
            b == last'.b
            p == last'.p
            L == b - a + 1
        IN /\ ~last'.raised
           /\ dc_start <= a /\ a <= b /\ b <= dc_end
           /\ dc_start <= p /\ p + L - 1 <= dc_end
           /\ Len(after.genome) = Len(donee.genome)
           /\ \A k \in 0..(Len(donee.genome) - 1) :
                 At(after.genome, k) =
                     IF k < p THEN At(donee.genome, k)
                     ELSE IF k < p + L THEN At(donor.genome, a + k - p)
                     ELSE At(donee.genome, k - L)
           /\ after.head_length = donee.head_length
           /\ head(after) = head(donee)
           /\ tail(after) = tail(donee)
           /\ dc_length(after) = dc_length(donee)
           /\ after.rnc_array = donee.rnc_array
           /\ \A g \in 1..Len(ind1) : g # last'.i2 + 1 => ind1'[g] = ind1[g]
           /\ Len(ind1') = Len(ind1)
           /\ ind2' = ind2
    ]_vars

\* a transposon of another gene was inserted at the start of the Dc domain
\* and its old first value moved right
C19_Witness ==
    /\ last.op = "transpose_dc"
    /\ ~last.raised
    /\ last.i1 # last.i2
    /\ last.a = last.b
    /\ last.p = ind1[last.i2 + 1].head_length + tail_length(ind1[last.i2 + 1])
    /\ At(ind1[last.i2 + 1].genome, last.p) # At(ind1[last.i2 + 1].genome, last.p + 1)
    /\ At(ind1[last.i2 + 1].genome, last.p) = At(ind1[last.i1 + 1].genome, last.a)

\* C20: mutate_uniform_dc changes only positions of the Dc domains, and each
\* value it leaves there is an integer of [0, len(rnc_array)) of the gene it
\* is written to; the lengths, the heads, the tails and the RNC arrays stay.
C20_MutateUniformDcRange ==
    [][CallOf("mutate_uniform_dc") =>
        /\ ~last'.raised
        /\ Len(ind1') = Len(ind1)
        /\ ind2' = ind2
        /\ \A g \in 1..Len(ind1) :
              LET before == ind1[g]
                  after == ind1'[g]
                  start == before.head_length + tail_length(before)
                  end == start + dc_length(before)
              IN /\ Len(after.genome) = Len(before.genome)
                 /\ after.head_length = before.head_length
                 /\ after.rnc_array = before.rnc_array
                 /\ \A k \in 0..(Len(before.genome) - 1) :
                       At(after.genome, k) # At(before.genome, k) =>
                           /\ start <= k /\ k < end
                           /\ isInt(At(after.genome, k))
                           /\ At(after.genome, k).val \in 0..(Len(before.rnc_array) - 1)
    ]_vars

\* a Dc value was replaced: two neighbours of a Dc domain are equal, which
\* the construction never yields
C20_Witness ==
    /\ last.op = "mutate_uniform_dc"
    /\ ~last.raised
    /\ \E g \in 1..Len(ind1) :
          \E k \in 1..(Len(dc(ind1[g])) - 1) : dc(ind1[g])[k] = dc(ind1[g])[k + 1]

\* C21: gene_transpose on a chromosome of n >= 2 genes exchanges gene 0 with
\* the gene at an index source of [1, n-1]: each of the two is afterwards
\* where the other was, content unchanged, and every other gene stays; on a
\* chromosome of one gene it changes nothing.
C21_GeneTransposeExchanges ==
    [][CallOf("gene_transpose") =>
        LET n == Len(ind1)
            source == last'.i1
        IN /\ ~last'.raised
           /\ Len(ind1') = n
           /\ ind2' = ind2
           /\ IF n >= 2
              THEN /\ source \in 1..(n - 1)
                   /\ ind1'[1] = ind1[source + 1]
                   /\ ind1'[source + 1] = ind1[1]
                   /\ \A g \in 1..n : g \notin {1, source + 1} => ind1'[g] = ind1[g]
              ELSE ind1' = ind1
    ]_vars

\* the first of three genes went to the end, the one between them stayed
C21_Witness ==
    /\ last.op = "gene_transpose"
    /\ ~last.raised
    /\ Len(ind1) = 3
    /\ last.i1 = 2
    /\ ind1[1] # ind1[3]
    /\ ind1[2] # ind1[1] /\ ind1[2] # ind1[3]

\* the root node of the tree of gene g
GeneRoot(g) == Node(_from_kexpression(kexpression_of(g)), 0)

\* an object is a node: it has a name and a list of children
IsNode(x) == x.cls = "Node" /\ {"name", "children"} \subseteq DOMAIN x

ChromosomeTreeOfTrees ==
    pc = "tree" =>
        LET n == Len(ind1)
            root == out.tree.root
        IN IF n >= 2
           THEN /\ root.name = (IF shape.linker = "None" THEN "tuple" ELSE shape.linker)
                /\ Len(root.children) = n
                /\ \A g \in 1..n :
                      /\ ~IsNode(root.children[g])
                      /\ root.children[g] = ExpressionTree(GeneRoot(ind1[g]))
           ELSE out.tree = ExpressionTree(GeneRoot(ind1[1]))

\* C23: mutate_uniform_ephemeral changes nothing but the values of ephemeral
\* terminals of the chromosome: at every position the symbol afterwards is
\* the object that was there (class, name, arity, identity), a symbol that
\* is no ephemeral terminal is as it was, the genes keep their lengths, head
\* lengths and RNC arrays, and a chromosome without ephemeral terminal is
\* returned as it was.
C23_EphemeralMutationFrame ==
    [][CallOf("mutate_uniform_ephemeral") =>
        /\ ~last'.raised
        /\ Len(ind1') = Len(ind1)
        /\ \A g \in 1..Len(ind1) :
              /\ Len(ind1'[g].genome) = Len(ind1[g].genome)
              /\ ind1'[g].head_length = ind1[g].head_length
              /\ ind1'[g].rnc_array = ind1[g].rnc_array
              /\ ind1'[g].cls = ind1[g].cls
              /\ \A k \in 1..Len(ind1[g].genome) :
                    LET before == ind1[g].genome[k]
                        after == ind1'[g].genome[k]
                    IN /\ after.cls = before.cls
                       /\ after.name = before.name
                       /\ after.arity = before.arity
                       /\ after.id = before.id
                       /\ ~isEphemeralTerminal(before) => after = before
        /\ ephemerals(ind1) = {} => ind1' = ind1
    ]_vars

\* the one call made changed the value of an ephemeral terminal: the
\* chromosome is none of those the construction yields
C23_Witness ==
    /\ n_ops = 1
    /\ last.op = "mutate_uniform_ephemeral"
    /\ \A seed \in 0..MaxSeed :
          ind1 # Chromosome(shape.cls, shape.head_length, shape.n_genes, seed, 0)

EphemeralPositions ==
    {q \in {1, 2} \X (1..MaxGenesOne) \X (1..(3 * MaxHeadOne + 2)) :
        LET c == IF q[1] = 1 THEN ind1 ELSE ind2
        IN /\ q[2] <= Len(c)
           /\ q[3] <= Len(c[q[2]].genome)
           /\ isEphemeralTerminal(c[q[2]].genome[q[3]])}

EphemeralAt(q) == (IF q[1] = 1 THEN ind1 ELSE ind2)[q[2]].genome[q[3]]

Unshared ==
    \A q, r \in EphemeralPositions : EphemeralAt(q).id = EphemeralAt(r).id => q = r

\* C25: after generation and after any sequence of operators no two gene
\* positions hold the same ephemeral terminal object.
C25_EphemeralInstancesUnshared == pc = "idle" => Unshared

\* generation yields one object per position, and an operator other than
\* the IS and RIS transposition keeps it so
UnsharedWithoutTransposition ==
    (pc = "idle" /\ n_ops <= 1 /\ last.op \notin {"is_transpose", "ris_transpose"}) =>
        Unshared

\* the genes of the two chromosomes, as <<chromosome, gene>>
GeneSlots ==
    {q \in {1, 2} \X (1..MaxGenesOne) :
        q[2] <= Len(IF q[1] = 1 THEN ind1 ELSE ind2)}

GeneAt(q) == (IF q[1] = 1 THEN ind1 ELSE ind2)[q[2]]

\* C26: after construction by GeneDc(...) or GeneDc.from_genome, cloning and
\* any sequence of operators each GeneDc gene holds an RNC array object of
\* its own, which is not the array the caller gave to from_genome; so a
\* write to the RNC array of one gene changes the array of no other gene.
C26_RncArraysUnshared ==
    /\ [](\A q \in GeneSlots :
            GeneAt(q).cls = "GeneDc" =>
                /\ GeneAt(q).rnc_id \notin {0, 1}
                /\ \A r \in GeneSlots : GeneAt(r).rnc_id = GeneAt(q).rnc_id => r = q)
    /\ [][CallOf("mutate_rnc_array_dc") =>
            /\ ind2' = ind2
            /\ Cardinality({g \in 1..Len(ind1) : ind1'[g] # ind1[g]}) <= MaxPoints]_vars

\* an RNC array of a chromosome was changed after it was cloned, and the
\* clone kept its values
C26_Witness ==
    /\ n_ops = 2
    /\ last.op = "mutate_rnc_array_dc"
    /\ shape.cls = "GeneDc"
    /\ ind2[1].rnc_id = 1 + MaxId({ind1[g].rnc_id : g \in 1..Len(ind1)})
    /\ ind2[1].genome = ind1[1].genome
    /\ ind2[1].rnc_array # ind1[1].rnc_array

\* C27: mutate_uniform changes only head and tail positions, a head position
\* to a function or a terminal and a tail position to a terminal, and leaves
\* the Dc domains and the RNC arrays; mutate_rnc_array_dc changes only
\* entries of the RNC arrays and leaves every head, tail and Dc position.
C27_PointMutationDomains ==
    /\ [][CallOf("mutate_uniform") =>
            /\ ~last'.raised
            /\ Len(ind1') = Len(ind1)
            /\ ind2' = ind2
            /\ \A g \in 1..Len(ind1) :
                  LET before == ind1[g]
                      after == ind1'[g]
                      h == before.head_length
                      t == tail_length(before)
                  IN /\ Len(after.genome) = Len(before.genome)
                     /\ after.head_length = h
                     /\ after.cls = before.cls
                     /\ after.rnc_array = before.rnc_array
                     /\ after.rnc_id = before.rnc_id
                     /\ \A k \in 0..(Len(before.genome) - 1) :
                           At(after.genome, k) # At(before.genome, k) =>
                               /\ k < h + t
                               /\ isFunction(At(after.genome, k)) \/
                                  isTerminal(At(after.genome, k))
                               /\ k >= h => isTerminal(At(after.genome, k))]_vars
    /\ [][CallOf("mutate_rnc_array_dc") =>
            /\ ~last'.raised
            /\ Len(ind1') = Len(ind1)
            /\ ind2' = ind2
            /\ \A g \in 1..Len(ind1) :
                  /\ ind1'[g].genome = ind1[g].genome
                  /\ ind1'[g].head_length = ind1[g].head_length
                  /\ ind1'[g].cls = ind1[g].cls
                  /\ ind1'[g].rnc_id = ind1[g].rnc_id
                  /\ Len(ind1'[g].rnc_array) = Len(ind1[g].rnc_array)]_vars

\* mutate_uniform has changed a gene with a Dc domain
C27_Witness ==
    /\ n_ops = 1
    /\ last.op = "mutate_uniform"
    /\ shape.cls = "GeneDc"
    /\ \A seed \in 0..MaxSeed :
          ind1 # Chromosome(shape.cls, shape.head_length, shape.n_genes, seed, 0)

----------------------------------------------------------------------------
(* Properties of gep_simple and gep_rnc *)

\* the registered operators in the order of _modify and _crossover, each
\* with the probability argument of the call
AppliedByCode ==
    LET order == ModifyAliases \o CrossoverAliases
        registered == SelectSeq(order, LAMBDA a : a \in run.registered)
    IN [i \in 1..Len(registered) |-> <<registered[i], run.args[registered[i]]>>]

\* C28: when the operators of a generation have all been applied, they were
\* applied in the order in which their aliases were inserted into
\* Toolbox.pbs, each with the probability stored in pbs.
C28_OperatorsInPbsOrder ==
    run.pc = "replace" => run.applied = run.pbs

\* what the code does instead: the order of the hasattr tests of _modify and
\* _crossover, with the probabilities given as arguments
OperatorsInCodeOrder ==
    run.pc = "replace" => run.applied = AppliedByCode

\* the individuals of a list as a set
Members(list) == {list[i] : i \in 1..Len(list)}

\* C29: the population has the same size in every generation, and the
\* n_elites best individuals of a generation are members of the next one
\* with genome and fitness unmodified by the operators of that generation,
\* which act on clones of the selected individuals only.
C29_ElitesSurvive ==
    /\ [](run.pc # "none" => Len(run.population) = PopSize)
    /\ [](run.pc \in {"replicate", "modify", "crossover", "replace"} =>
            /\ Len(run.elites) = run.n_elites
            /\ \A a \in 1..Len(run.elites) :
                  /\ run.elites[a] \in Members(run.population)
                  /\ run.elites[a].valid
                  /\ run.elites[a].fit = evaluate(run.elites[a].genome)
                  /\ \A i \in 1..Len(run.population) :
                        (\A b \in 1..Len(run.elites) : run.elites[b].id # run.population[i].id)
                            => run.elites[a].fit >= run.population[i].fit
                  /\ \A j \in 1..Len(run.offspring) :
                        run.pc # "replicate" => run.offspring[j].id # run.elites[a].id)
    /\ [][run.pc \in {"replicate", "modify", "crossover"} =>
            /\ run'.elites = run.elites
            /\ run'.population = run.population]_vars
    /\ [][run.pc = "replace" =>
            /\ Len(run'.population) = Len(run.population)
            /\ Members(run.elites) \subseteq Members(run'.population)]_vars

\* a generation whose operators acted on the offspring, and whose elite is
\* in the next generation as it was
C29_Witness ==
    /\ run.pc = "evaluate"
    /\ run.gen = 1
    /\ run.n_elites = 1
    /\ run.population[1].id <= PopSize
    /\ run.population[1].valid
    /\ run.population[1].fit = evaluate(run.population[1].genome)
    /\ \A i \in 2..PopSize : ~run.population[i].valid /\ run.population[i].id > PopSize

\* C30: whenever elite selection, select, statistics or the hall-of-fame
\* update runs, every individual of the population has a valid fitness: an
\* individual to which an operator was applied has its fitness invalidated
\* and is evaluated at the start of the next generation, and an individual
\* whose fitness is valid is not evaluated again.
C30_FitnessValidWhenUsed ==
    /\ [](run.pc \in {"record", "select"} =>
            \A i \in 1..Len(run.population) :
                /\ run.population[i].valid
                /\ run.population[i].fit = evaluate(run.population[i].genome))
    /\ [](run.pc \in {"modify", "crossover", "replace"} =>
            \A j \in 1..Len(run.offspring) :
                run.offspring[j].id \in run.touched => ~run.offspring[j].valid)
    /\ [][run.pc = "evaluate" =>
            /\ \A i \in 1..Len(run.population) :
                  /\ run.population[i].id \in run.touched
                        => run.population[i].id \in run'.evaluated
                  /\ run.population[i].valid
                        => /\ run.population[i].id \notin run'.evaluated
                           /\ run'.population[i] = run.population[i]
                  /\ run.population[i].id \in run'.evaluated
                        => /\ run'.population[i].valid
                           /\ run'.population[i].fit = evaluate(run.population[i].genome)]_vars

\* the second generation has been evaluated: the individuals the operators
\* were applied to, and not the one they were not applied to
C30_Witness ==
    /\ run.pc = "record"
    /\ run.gen = 1
    /\ run.evaluated # {}
    /\ \E i \in 1..Len(run.population) :
          /\ run.population[i].id \notin run.evaluated
          /\ run.population[i].id > PopSize
    /\ \E i \in 1..Len(run.population) :
          /\ run.population[i].id \in run.evaluated
          /\ run.population[i].id > PopSize

============================================================================
